---- MODULE Spec2Model ----
(***************************************************************************)
(* Cross-chain atomic swap (Ethereum <-> Tezos): the on-ledger escrows and *)
(* the resolver service that drives an order through deployment, status   *)
(* queries, secret revelation and withdrawal.                              *)
(*                                                                         *)
(* SpecEscrow : one deployed pair of escrows (Ethereum EscrowSrc, Tezos    *)
(*              destination escrow) called by arbitrary parties.           *)
(* Spec       : the ResolverService request handlers, interleaved at their *)
(*              await points, acting on the same ledger.                   *)
(***************************************************************************)
EXTENDS Integers, Sequences, FiniteSets, TLC

VARIABLES
  now,          \* ledger / wall clock, seconds
  ledger,       \* contract address -> escrow instance
  lastCall,     \* history: the escrow transaction just executed and its
                \* outcome; NoCall once its receipt has been read
  activeOrders, \* ResolverService.activeOrders: orderId -> order record
  heap,         \* the order objects the Map's entries and the handlers'
                \* locals refer to: object id -> order record
  reqs,         \* HTTP requests: the handlers' positions and locals
  submitted     \* withdrawal transactions the service sent to a ledger

vars == <<now, ledger, lastCall, activeOrders, heap, reqs, submitted>>

(***************************************************************************)
(* Bounds of the model.                                                    *)
(***************************************************************************)
\* an adversarial Immutables tuple differs from the deployed one in at most
\* this many fields
MaxForgedFields == 2
\* HTTP requests handled in one behaviour
MaxRequests == 3

(***************************************************************************)
(* Parties, secrets, hashes.                                               *)
(***************************************************************************)
Maker    == "maker"
Resolver == "resolver"
Holder   == "holder"      \* a third party holding the access token
Parties  == {Maker, Resolver, Holder}

\* BaseEscrow.onlyAccessTokenHolder: accessToken.balanceOf(msg.sender) > 0
AccessTokenHolders == {Resolver, Holder}

Secrets == {"s1", "s2"}
\* the secret the maker generated for the order (order._metadata.secret)
MakerSecret == "s1"
\* ethers.keccak256 / Solidity keccak256 over the 32 secret bytes: injective
\* on the secrets of the model
Keccak(s) == <<"keccak", s>>

ETH   == "0x0"            \* ethers.ZeroAddress: the native asset
ERC20 == "erc20"

NoCall     == [op |-> "none"]

(***************************************************************************)
(* extractOrderDeploymentParams: the timelocks generated at acceptance.    *)
(***************************************************************************)
Max(a, b) == IF a >= b THEN a ELSE b

FinalityDelay          == 60
PublicWithdrawalDelay  == 360
MinCancellationDelay   == 3600
MinPublicCancelDelay   == 3900
PublicCancelAfterExpiry == 300
MinDstCancellationDelay == 1800
SafetyDepositDivisor   == 100

GenerateTimelocks(srcExpiry, dstExpiry, t) ==
  [ withdrawalStart         |-> t + FinalityDelay,
    publicWithdrawalStart   |-> t + PublicWithdrawalDelay,
    cancellationStart       |-> Max(srcExpiry, t + MinCancellationDelay),
    publicCancellationStart |-> Max(srcExpiry + PublicCancelAfterExpiry,
                                    t + MinPublicCancelDelay),
    dstCancellationStart    |-> Max(dstExpiry, t + MinDstCancellationDelay) ]

ExtractOrderDeploymentParams(order, t) ==
  [ orderId            |-> order.orderId,
    orderHash          |-> <<"keccak", order.orderId>>,
    maker              |-> order.maker,
    taker              |-> Resolver,
    secretHash         |-> order.secretHash,
    secret             |-> order.metadata.secret,
    tokenAddress       |-> order.makerAsset,
    amount             |-> order.makingAmount,
    safetyDeposit      |-> order.makingAmount \div SafetyDepositDivisor,
    tezosAmount        |-> order.takingAmount,
    tezosSafetyDeposit |-> order.takingAmount \div SafetyDepositDivisor,
    timelocks          |-> GenerateTimelocks(order.srcExpiry, order.dstExpiry, t),
    sourceChain        |-> order.sourceChain ]

(***************************************************************************)
(* Escrow instances.  One record shape for both ledgers:                   *)
(*   eth, tok   the instance's native and token balance                    *)
(*   imm        Ethereum: the tuple computed at deployment (the contract   *)
(*              is deployed directly and stores none of it);               *)
(*              Tezos: storage.immutables                                  *)
(*   withdrawn, cancelled                                                  *)
(*              Ethereum: EscrowWithdrawal / EscrowCancelled was emitted;  *)
(*              Tezos: the storage flags                                   *)
(***************************************************************************)
\* The lanes of the packed timelocks.  The code masks every lane with
\* 0xFFFFFFFF (32 bits); the integers of the model checker end at 2^31 - 1, so
\* the lanes of the model are 30 bits wide: the arithmetic is the code's, the
\* wrap-around happens at 2^30 instead of 2^32.
LaneModulus == 1073741824

\* timelocks.<name>: a field that is absent reads as undefined, which is falsy
\* like 0
Field(timelocks, name) == IF name \in DOMAIN timelocks THEN timelocks[name] ELSE 0

\* x || d
OrDefault(x, d) == IF x = 0 THEN d ELSE x

DefaultDstCancellationDelay == 43200

\* encodeTimelocks called at time t.  deployedAt is timelocks.deployedAt, or t
\* when that is not set (extractOrderDeploymentParams never sets it).  The
\* source-stage delays are counted from deployedAt and floored at 0; the
\* destination lanes take the delay fields of the input, which default to 0,
\* 0 and 43200.  The delays above the lane width are "capped" only in a copy
\* that is not packed: what is packed is each delay masked to its lane.
EncodeTimelocks(timelocks, t) ==
  LET deployedAt == OrDefault(Field(timelocks, "deployedAt"), t)
      Delay(name, d) == Max(0, OrDefault(Field(timelocks, name), t + d) - deployedAt)
  IN [ deployedAt            |-> deployedAt % LaneModulus,
       srcWithdrawal         |-> Delay("withdrawalStart", 30) % LaneModulus,
       srcPublicWithdrawal   |-> Delay("publicWithdrawalStart", 3600) % LaneModulus,
       srcCancellation       |-> Delay("cancellationStart", 86400) % LaneModulus,
       srcPublicCancellation |-> Delay("publicCancellationStart", 86700) % LaneModulus,
       dstWithdrawal         |-> Field(timelocks, "dstWithdrawalDelay") % LaneModulus,
       dstPublicWithdrawal   |-> Field(timelocks, "dstPublicWithdrawalDelay") % LaneModulus,
       dstCancellation       |-> OrDefault(Field(timelocks, "dstCancellationDelay"),
                                           DefaultDstCancellationDelay) % LaneModulus ]

\* immutables.timelocks.get(stage): the instant at which the stage starts
TimelocksGet(packed, stage) == packed.deployedAt + packed[stage]

\* deployEthereumSourceEscrow at time t: deploymentImmutables
SrcImmutables(p, t) ==
  [ orderHash     |-> p.orderHash,
    hashlock      |-> p.secretHash,
    maker         |-> p.maker,
    taker         |-> p.taker,
    token         |-> p.tokenAddress,
    amount        |-> p.amount,
    safetyDeposit |-> p.safetyDeposit,
    timelocks     |-> EncodeTimelocks(p.timelocks, t) ]

\* deployEthereumSourceEscrow, native asset: the resolver wallet sends
\* amount + safetyDeposit with the deployment
DeployedSrcEscrow(p, t) ==
  [ chain |-> "ethereum",
    eth   |-> IF p.tokenAddress = ETH THEN p.amount + p.safetyDeposit ELSE 0,
    tok   |-> IF p.tokenAddress = ETH THEN 0 ELSE p.amount,
    imm   |-> SrcImmutables(p, t),
    withdrawn |-> FALSE,
    cancelled |-> FALSE ]

\* deployTezosDestinationEscrow: immutables (withdrawal_start,
\* public_withdrawal_start, cancellation_start, public_cancellation_start as
\* absolute instants; public_cancellation_start is set to cancellationStart)
DstImmutables(p) ==
  [ orderHash     |-> p.orderHash,
    hashlock      |-> p.secretHash,
    maker         |-> p.maker,
    taker         |-> Resolver,
    token         |-> "XTZ",
    amount        |-> p.tezosAmount,
    safetyDeposit |-> p.tezosSafetyDeposit,
    timelocks     |-> [ withdrawal         |-> p.timelocks.withdrawalStart,
                        publicWithdrawal   |-> p.timelocks.publicWithdrawalStart,
                        cancellation       |-> p.timelocks.cancellationStart,
                        publicCancellation |-> p.timelocks.cancellationStart ] ]

DeployedDstEscrow(p) ==
  [ chain |-> "tezos",
    eth   |-> p.tezosAmount + p.tezosSafetyDeposit,
    tok   |-> 0,
    imm   |-> DstImmutables(p),
    withdrawn |-> FALSE,
    cancelled |-> FALSE ]

(***************************************************************************)
(* Ethereum EscrowSrc.                                                     *)
(***************************************************************************)
\* BaseEscrow's modifiers, as EscrowSrc.validateWithdrawConditions spells
\* them out; every one reads the tuple the CALLER supplies
onlyTaker(caller, imm) == caller = imm.taker
\* the comparison of onlyAfter made strict: the stage opens one second late
onlyAfterStrict(t, start) == t > start
onlyAfter(t, start) == t >= start
onlyBefore(t, stop) == t < stop
onlyValidSecret(secret, imm) == Keccak(secret) = imm.hashlock
onlyAccessTokenHolder(caller) == caller \in AccessTokenHolders

\* "// onlyValidImmutables(immutables)": the modifier is commented out on
\* _withdrawTo and on _cancel, so the supplied tuple is compared with nothing
onlyValidImmutables(esc, imm) == TRUE

\* _uniTransfer(token, to, amount) then _ethTransfer(msg.sender, safetyDeposit):
\* both revert when the instance holds too little
CanTransfer(esc, imm) ==
  IF imm.token = ETH
    THEN esc.eth >= imm.amount + imm.safetyDeposit
    ELSE esc.tok >= imm.amount /\ esc.eth >= imm.safetyDeposit

AfterTransfer(esc, imm) ==
  IF imm.token = ETH
    THEN [esc EXCEPT !.eth = @ - (imm.amount + imm.safetyDeposit)]
    ELSE [esc EXCEPT !.tok = @ - imm.amount, !.eth = @ - imm.safetyDeposit]

Reverted(esc) == [ok |-> FALSE, esc |-> esc, principalTo |-> "nobody", depositTo |-> "nobody"]

\* EscrowSrc._withdrawTo
WithdrawToInternal(esc, caller, secret, target, imm) ==
  IF onlyValidImmutables(esc, imm) /\ onlyValidSecret(secret, imm) /\ CanTransfer(esc, imm)
    THEN [ok |-> TRUE,
          esc |-> [AfterTransfer(esc, imm) EXCEPT !.withdrawn = TRUE],
          principalTo |-> target, depositTo |-> caller]
    ELSE Reverted(esc)

\* EscrowSrc._cancel
CancelInternal(esc, caller, imm) ==
  IF onlyValidImmutables(esc, imm) /\ CanTransfer(esc, imm)
    THEN [ok |-> TRUE,
          esc |-> [AfterTransfer(esc, imm) EXCEPT !.cancelled = TRUE],
          principalTo |-> imm.maker, depositTo |-> caller]
    ELSE Reverted(esc)

SrcWithdrawOps == {"withdraw", "withdrawTo", "publicWithdraw"}
SrcCancelOps   == {"cancel", "publicCancel"}
SrcOps         == SrcWithdrawOps \cup SrcCancelOps

\* EscrowSrc.withdraw / withdrawTo / publicWithdraw / cancel / publicCancel at
\* block.timestamp t
EscrowSrcCall(esc, t, op, caller, secret, target, imm) ==
  CASE op = "withdraw" ->
         IF /\ onlyTaker(caller, imm)
            /\ onlyAfter(t, TimelocksGet(imm.timelocks, "srcWithdrawal"))
            /\ onlyBefore(t, TimelocksGet(imm.timelocks, "srcCancellation"))
           THEN WithdrawToInternal(esc, caller, secret, caller, imm)
           ELSE Reverted(esc)
    [] op = "withdrawTo" ->
         IF /\ onlyTaker(caller, imm)
            /\ onlyAfter(t, TimelocksGet(imm.timelocks, "srcWithdrawal"))
            /\ onlyBefore(t, TimelocksGet(imm.timelocks, "srcCancellation"))
           THEN WithdrawToInternal(esc, caller, secret, target, imm)
           ELSE Reverted(esc)
    [] op = "publicWithdraw" ->
         IF /\ onlyAccessTokenHolder(caller)
            /\ onlyAfter(t, TimelocksGet(imm.timelocks, "srcPublicWithdrawal"))
            /\ onlyBefore(t, TimelocksGet(imm.timelocks, "srcCancellation"))
           THEN WithdrawToInternal(esc, caller, secret, imm.taker, imm)
           ELSE Reverted(esc)
    [] op = "cancel" ->
         IF /\ onlyTaker(caller, imm)
            /\ onlyAfter(t, TimelocksGet(imm.timelocks, "srcCancellation"))
           THEN CancelInternal(esc, caller, imm)
           ELSE Reverted(esc)
    [] op = "publicCancel" ->
         IF /\ onlyAccessTokenHolder(caller)
            /\ onlyAfter(t, TimelocksGet(imm.timelocks, "srcPublicCancellation"))
           THEN CancelInternal(esc, caller, imm)
           ELSE Reverted(esc)

(***************************************************************************)
(* Tezos destination escrow (compiled SmartPy EscrowDst): the tuple lives  *)
(* in storage, together with the withdrawn and cancelled flags.            *)
(***************************************************************************)
TezosOps == {"withdraw", "public_withdraw", "cancel", "public_cancel"}

TezosSettle(esc, caller, principalTo, flag) ==
  [ok |-> TRUE,
   esc |-> [esc EXCEPT !.eth = @ - (esc.imm.amount + esc.imm.safetyDeposit),
                       !.withdrawn = (@ \/ flag = "withdrawn"),
                       !.cancelled = (@ \/ flag = "cancelled")],
   principalTo |-> principalTo, depositTo |-> caller]

TezosDstCall(esc, t, op, caller, secret) ==
  LET imm  == esc.imm
      open == /\ ~esc.withdrawn /\ ~esc.cancelled
              /\ esc.eth >= imm.amount + imm.safetyDeposit
  IN CASE op = "withdraw" ->
            IF /\ open /\ caller = imm.taker
               /\ t >= imm.timelocks.withdrawal /\ t < imm.timelocks.cancellation
               /\ Keccak(secret) = imm.hashlock
              THEN TezosSettle(esc, caller, imm.maker, "withdrawn")
              ELSE Reverted(esc)
       [] op = "public_withdraw" ->
            IF /\ open /\ caller \in AccessTokenHolders
               /\ t >= imm.timelocks.publicWithdrawal /\ t < imm.timelocks.cancellation
               /\ Keccak(secret) = imm.hashlock
              THEN TezosSettle(esc, caller, imm.maker, "withdrawn")
              ELSE Reverted(esc)
       [] op = "cancel" ->
            IF /\ open /\ caller = imm.taker
               /\ t >= imm.timelocks.cancellation
              THEN TezosSettle(esc, caller, imm.taker, "cancelled")
              ELSE Reverted(esc)
       [] op = "public_cancel" ->
            IF /\ open /\ caller \in AccessTokenHolders
               /\ t >= imm.timelocks.publicCancellation
              THEN TezosSettle(esc, caller, imm.taker, "cancelled")
              ELSE Reverted(esc)

(***************************************************************************)
(* The order of createCrossChainOrder and its deployed pair of escrows.    *)
(***************************************************************************)
EthLockDuration == 86400
TezLockDuration == 43200

\* CrossChainOrderService.createCrossChainOrder at time t with secret s
CreateCrossChainOrder(orderId, s, t) ==
  [ orderId      |-> orderId,
    maker        |-> Maker,
    makerAsset   |-> ETH,
    makingAmount |-> 100,
    takingAmount |-> 200,
    secretHash   |-> Keccak(s),
    srcExpiry    |-> t + EthLockDuration,
    dstExpiry    |-> t + TezLockDuration,
    sourceChain  |-> "ethereum",
    signature    |-> "signed",
    metadata     |-> [secret |-> s] ]

EthAddr(n) == <<"eth", n>>
TezAddr(n) == <<"tez", n>>

\* the instants at which the stages of an order accepted at time 0 change
\* (its dstExpiry included), and one instant inside the finality period
Instants ==
  { 0, 30, FinalityDelay, PublicWithdrawalDelay, TezLockDuration,
    EthLockDuration, EthLockDuration + PublicCancelAfterExpiry }

\* the clock moves to the next instant
Tick ==
  /\ lastCall = NoCall
  /\ \E t \in Instants :
       /\ t > now
       /\ \A u \in Instants : u > now => t <= u
       /\ now' = t
  /\ UNCHANGED <<ledger, lastCall, activeOrders, heap, reqs, submitted>>

(***************************************************************************)
(* Tuples a caller can supply: the deployed tuple with up to               *)
(* MaxForgedFields fields replaced.                                        *)
(***************************************************************************)
FarFuture == 1000000

ForgedValues(field) ==
  CASE field = "orderHash"     -> { <<"keccak", "forged">> }
    [] field = "hashlock"      -> { Keccak(s) : s \in Secrets }
    [] field = "maker"         -> Parties
    [] field = "taker"         -> Parties
    [] field = "token"         -> { ETH, ERC20 }
    [] field = "amount"        -> { 50 }
    [] field = "safetyDeposit" -> { 0 }
    [] field = "timelocks"     ->
         { [deployedAt |-> 0, srcWithdrawal |-> 0, srcPublicWithdrawal |-> 0,
            srcCancellation |-> 0, srcPublicCancellation |-> 0,
            dstWithdrawal |-> 0, dstPublicWithdrawal |-> 0, dstCancellation |-> 0],
           [deployedAt |-> 0, srcWithdrawal |-> 0, srcPublicWithdrawal |-> 0,
            srcCancellation |-> FarFuture, srcPublicCancellation |-> FarFuture,
            dstWithdrawal |-> 0, dstPublicWithdrawal |-> 0, dstCancellation |-> 0] }

ImmutablesFields ==
  { "orderHash", "hashlock", "maker", "taker", "token", "amount",
    "safetyDeposit", "timelocks" }

RECURSIVE Forge(_, _)
Forge(tuples, k) ==
  IF k = 0 THEN tuples
  ELSE Forge(tuples \cup
               UNION { { [i EXCEPT ![f] = v] : v \in ForgedValues(f) } :
                       <<i, f>> \in tuples \X ImmutablesFields },
             k - 1)

ImmutablesInputs(bound) == Forge({bound}, MaxForgedFields)


(***************************************************************************)
(* SpecEscrow: any party calls any entry point of the deployed pair.       *)
(***************************************************************************)
OrchestratorIdle ==
  /\ activeOrders = << >>
  /\ heap = << >>
  /\ reqs = << >>
  /\ submitted = {}

InitEscrow ==
  LET p == ExtractOrderDeploymentParams(CreateCrossChainOrder("o1", "s1", 0), 0)
  IN /\ now = 0
     /\ ledger = (EthAddr(1) :> DeployedSrcEscrow(p, 0)) @@ (TezAddr(1) :> DeployedDstEscrow(p))
     /\ lastCall = NoCall
     /\ OrchestratorIdle

Settled(esc) == esc.withdrawn \/ esc.cancelled

CallRecord(addr, op, caller, secret, imm, res) ==
  [ op |-> op, addr |-> addr, caller |-> caller, secret |-> secret,
    imm |-> imm, ok |-> res.ok,
    principalTo |-> res.principalTo, depositTo |-> res.depositTo,
    settledBefore |-> Settled(ledger[addr]) ]

\* a transaction calling EscrowSrc at addr
SrcCall(addr) ==
  /\ lastCall = NoCall
  /\ ledger[addr].chain = "ethereum"
  /\ \E op \in SrcOps, caller \in Parties, secret \in Secrets,
        imm \in ImmutablesInputs(ledger[addr].imm) :
       \E target \in (IF op = "withdrawTo" THEN Parties ELSE {caller}) :
         LET res == EscrowSrcCall(ledger[addr], now, op, caller, secret, target, imm)
         IN /\ ledger' = [ledger EXCEPT ![addr] = res.esc]
            /\ lastCall' = CallRecord(addr, op, caller, secret, imm, res)
  /\ UNCHANGED <<now, activeOrders, heap, reqs, submitted>>

\* an operation calling the Tezos escrow at addr
DstCall(addr) ==
  /\ lastCall = NoCall
  /\ ledger[addr].chain = "tezos"
  /\ \E op \in TezosOps, caller \in Parties, secret \in Secrets :
       LET res == TezosDstCall(ledger[addr], now, op, caller, secret)
       IN /\ ledger' = [ledger EXCEPT ![addr] = res.esc]
          /\ lastCall' = CallRecord(addr, op, caller, secret, ledger[addr].imm, res)
  /\ UNCHANGED <<now, activeOrders, heap, reqs, submitted>>

\* the transaction's receipt has been read; the next one can be sent
CallReturns ==
  /\ lastCall # NoCall
  /\ lastCall' = NoCall
  /\ UNCHANGED <<now, ledger, activeOrders, heap, reqs, submitted>>

NextEscrow ==
  \/ Tick
  \/ CallReturns
  \/ \E addr \in DOMAIN ledger : SrcCall(addr)
  \/ \E addr \in DOMAIN ledger : DstCall(addr)

SpecEscrow == InitEscrow /\ [][NextEscrow]_vars

(***************************************************************************)
(* Claims about the escrow pair (SpecEscrow).                              *)
(***************************************************************************)
SrcEscrow == ledger[EthAddr(1)]
DstEscrow == ledger[TezAddr(1)]

IsCall     == lastCall # NoCall
\* a call of an EscrowSrc entry point
IsSrcCall  == IsCall /\ ledger[lastCall.addr].chain = "ethereum"
IsWithdraw == IsSrcCall /\ lastCall.op \in SrcWithdrawOps
IsCancel   == IsSrcCall /\ lastCall.op \in SrcCancelOps
\* the tuple bound to the called instance at its creation
BoundImm   == ledger[lastCall.addr].imm

\* C1: a swap never ends with one escrow of the pair withdrawn and the other
\* refunded by cancellation: both end withdrawn or both end cancelled.
C1_Atomicity ==
  /\ ~(SrcEscrow.withdrawn /\ DstEscrow.cancelled)
  /\ ~(SrcEscrow.cancelled /\ DstEscrow.withdrawn)

\* C2: a state-changing call that supplies a tuple differing from the one
\* bound at creation in any field fails (and so moves no funds).
C2_ImmutablesBinding ==
  (IsSrcCall /\ lastCall.imm # BoundImm) => ~lastCall.ok

\* C3: withdrawn and cancelled are mutually exclusive one-shot outcomes of an
\* instance: no call succeeds on an instance already withdrawn or cancelled,
\* and no instance is both withdrawn and cancelled.
C3_OneShotTerminal ==
  /\ \A a \in DOMAIN ledger : ~(ledger[a].withdrawn /\ ledger[a].cancelled)
  /\ (IsCall /\ lastCall.settledBefore) => ~lastCall.ok

\* the claim's validity condition of a withdrawal, read on the bound tuple
ValidWithdrawal ==
  LET b == BoundImm
  IN /\ now < TimelocksGet(b.timelocks, "srcCancellation")
     /\ Keccak(lastCall.secret) = b.hashlock
     /\ \/ /\ lastCall.op \in {"withdraw", "withdrawTo"}
           /\ lastCall.caller = b.taker
           /\ now >= TimelocksGet(b.timelocks, "srcWithdrawal")
        \/ /\ lastCall.op = "publicWithdraw"
           /\ lastCall.caller \in AccessTokenHolders
           /\ now >= TimelocksGet(b.timelocks, "srcPublicWithdrawal")

\* C4: a withdrawal on EscrowSrc succeeds only if it is valid (in the stage
\* window, with the secret of the hashlock, by the taker or by a credential
\* holder in the public stage), and a valid withdrawal on an unsettled
\* instance succeeds.
C4_WithdrawValidity ==
  IsWithdraw =>
    /\ lastCall.ok => ValidWithdrawal
    /\ (ValidWithdrawal /\ ~lastCall.settledBefore /\ lastCall.imm = BoundImm)
         => lastCall.ok

\* the claim's validity condition of a cancellation, read on the bound tuple
ValidCancel ==
  LET b == BoundImm
  IN \/ /\ lastCall.op = "cancel"
        /\ lastCall.caller = b.taker
        /\ now >= TimelocksGet(b.timelocks, "srcCancellation")
     \/ /\ lastCall.op = "publicCancel"
        /\ lastCall.caller \in AccessTokenHolders
        /\ now >= TimelocksGet(b.timelocks, "srcPublicCancellation")

\* C5: a cancellation on EscrowSrc succeeds only if it is valid (cancellation
\* reached, by the taker or by a credential holder in the public stage); it
\* then returns the principal to the maker and the safety deposit to the
\* caller; a valid cancellation on an unsettled instance succeeds.
C5_CancelValidity ==
  IsCancel =>
    /\ lastCall.ok => /\ ValidCancel
                      /\ lastCall.principalTo = BoundImm.maker
                      /\ lastCall.depositTo = lastCall.caller
    /\ (ValidCancel /\ ~lastCall.settledBefore /\ lastCall.imm = BoundImm)
         => lastCall.ok

(***************************************************************************)
(* ResolverService: the order records and the helpers of its handlers.     *)
(***************************************************************************)
OrderIds == {"o1"}

NoError == "none"

\* ethers.isAddress: the strings that are 20-byte hex addresses; the zero
\* address is one of them
IsAddress(a) == a \in Parties \cup {ETH}

\* validateOrderForResolver at time t: the message of the error it throws.
\* A field that is absent, empty or 0 is falsy: the expiry checks skip it.
ValidateOrderForResolver(order, t) ==
  CASE order.orderId = "" \/ order.maker = "" \/ order.signature = "" ->
         "Invalid order structure - missing required fields"
    [] OTHER ->
         IF ~IsAddress(order.maker) THEN "Invalid maker address"
         ELSE IF order.makerAsset # "" /\ order.makerAsset # ETH /\ ~IsAddress(order.makerAsset)
           THEN "Invalid maker asset address"
         ELSE IF order.srcExpiry # 0 /\ order.srcExpiry <= t
           THEN "Source chain order has expired"
         ELSE IF order.dstExpiry # 0 /\ order.dstExpiry <= t
           THEN "Destination chain order has expired"
         ELSE IF order.makingAmount <= 0 THEN "Invalid making amount"
         ELSE IF order.takingAmount <= 0 THEN "Invalid taking amount"
         ELSE NoError

\* the result object of deployEthereumSourceEscrow (native asset: funded with
\* the deployment)
RealSourceContract(r) ==
  [ contractAddress |-> EthAddr(r), contractType |-> "ethereum-source",
    funded |-> TRUE, requiresApproval |-> FALSE, requiresUserFunding |-> FALSE ]

\* the result object of deployTezosDestinationEscrow: it has no funded field
\* (read as false)
RealTargetContract(r) ==
  [ contractAddress |-> TezAddr(r), contractType |-> "tezos-destination",
    funded |-> FALSE, requiresApproval |-> FALSE, requiresUserFunding |-> FALSE ]

\* handleNewOrder's fallback pair: random addresses at which no contract exists
MockSourceContract(r) ==
  [ contractAddress |-> <<"mock-eth", r>>, contractType |-> "ethereum-source",
    funded |-> FALSE, requiresApproval |-> FALSE, requiresUserFunding |-> FALSE ]

MockTargetContract(r) ==
  [ contractAddress |-> <<"mock-tez", r>>, contractType |-> "tezos-destination",
    funded |-> FALSE, requiresApproval |-> FALSE, requiresUserFunding |-> FALSE ]

\* handleNewOrder: orderRecord
OrderRecord(order, p, sourceContract, targetContract) ==
  [ orderId        |-> order.orderId,
    secretHash     |-> order.secretHash,
    status         |-> "contracts_deployed",
    awaitingFunding |-> TRUE,
    sourceContract |-> sourceContract,
    targetContract |-> targetContract,
    orderParams    |-> p,
    withdrawalTransactions |-> << >>,
    revealedSecret |-> "none" ]

\* how a read of a ledger ends: it answers; the node cannot be reached
\* (initializeEthereum, initializeTezos or the provider throws); or the lookup
\* of the contract or of the token balance throws an error other than "not
\* found"
ReadOutcomes == {"ok", "unavailable", "error"}

\* the check threw
StatusThrown == [thrown |-> TRUE, deployed |-> FALSE, funded |-> FALSE]

StatusRead(deployed, funded) ==
  [thrown |-> FALSE, deployed |-> deployed, funded |-> funded]

\* checkEthereumContractStatus: code at the address, and a balance covering
\* amount + safetyDeposit (native asset) or amount (token); a token balance
\* that cannot be read counts as funded; any other failure is rethrown
CheckEthereumContractStatus(addr, p, read) ==
  IF read = "unavailable" \/ (read = "error" /\ p.tokenAddress = ETH)
    THEN StatusThrown
  ELSE IF addr \notin DOMAIN ledger
    THEN StatusRead(FALSE, FALSE)
  ELSE IF p.tokenAddress = ETH
    THEN StatusRead(TRUE, ledger[addr].eth >= p.amount + p.safetyDeposit)
  ELSE IF read = "error"
    THEN StatusRead(TRUE, TRUE)
    ELSE StatusRead(TRUE, ledger[addr].tok >= p.amount)

\* checkTezosContractStatus: the contract is found, and its balance covers
\* tezosAmount + tezosSafetyDeposit; a lookup that fails with anything but
\* "not found" counts as deployed and funded
CheckTezosContractStatus(addr, p, read) ==
  IF read = "unavailable"
    THEN StatusThrown
  ELSE IF read = "error"
    THEN StatusRead(TRUE, TRUE)
  ELSE IF addr \notin DOMAIN ledger
    THEN StatusRead(FALSE, FALSE)
    ELSE StatusRead(TRUE, ledger[addr].eth >= p.tezosAmount + p.tezosSafetyDeposit)

\* checkContractStatusOnChain: a check that threw is answered from the stored
\* record (deployed: the address is set; funded: contractInfo.funded); a
\* contract of neither type is reported deployed and funded
CheckContractStatusOnChain(contractInfo, p, read) ==
  LET res == CASE contractInfo.contractType \in {"ethereum-source", "ethereum-destination"} ->
                    CheckEthereumContractStatus(contractInfo.contractAddress, p, read)
               [] contractInfo.contractType \in {"tezos-source", "tezos-destination"} ->
                    CheckTezosContractStatus(contractInfo.contractAddress, p, read)
               [] OTHER -> StatusRead(TRUE, TRUE)
  IN IF res.thrown
       THEN [deployed |-> TRUE, funded |-> contractInfo.funded]
       ELSE [deployed |-> res.deployed, funded |-> res.funded]

(***************************************************************************)
(* ResolverService: withdrawals.  Each returns whether it succeeded, the   *)
(* ledger it leaves, and the transactions it sent to the ledger.           *)
(***************************************************************************)
WithdrawalFailed(err) ==
  [ok |-> FALSE, error |-> err, ledger |-> ledger, attempts |-> << >>]

Attempt(chain, op, ok) == [chain |-> chain, op |-> op, ok |-> ok]

\* the entry point tried when the first one failed: the plain withdraw on
\* both ledgers
FallbackEntryPoint(first) == "withdraw"

\* withdrawFromTezosEscrow at time t, sent from the resolver's Tezos wallet
WithdrawFromTezosEscrow(addr, secret, p, t) ==
  IF Keccak(secret) # p.secretHash
    THEN WithdrawalFailed("Secret verification failed for Tezos contract")
  ELSE IF addr \notin DOMAIN ledger
    THEN WithdrawalFailed("contract_not_found")
  ELSE IF t < p.timelocks.withdrawalStart
    THEN WithdrawalFailed("Too early to withdraw from Tezos")
  ELSE
    LET first == IF t >= p.timelocks.publicWithdrawalStart
                   THEN "public_withdraw" ELSE "withdraw"
        res1  == TezosDstCall(ledger[addr], t, first, Resolver, secret)
        res2  == TezosDstCall(ledger[addr], t, FallbackEntryPoint(first),
                              Resolver, secret)
    IN IF res1.ok
         THEN [ok |-> TRUE, error |-> NoError,
               ledger |-> [ledger EXCEPT ![addr] = res1.esc],
               attempts |-> << Attempt("tezos", first, TRUE) >>]
       ELSE IF res2.ok
         THEN [ok |-> TRUE, error |-> NoError,
               ledger |-> [ledger EXCEPT ![addr] = res2.esc],
               attempts |-> << Attempt("tezos", first, FALSE),
                               Attempt("tezos", FallbackEntryPoint(first), TRUE) >>]
       ELSE [ok |-> FALSE, error |-> "All Tezos withdrawal methods failed",
             ledger |-> ledger,
             attempts |-> << Attempt("tezos", first, FALSE),
                             Attempt("tezos", FallbackEntryPoint(first), FALSE) >>]

\* withdrawFromEthereumEscrow at time t, sent from the resolver's wallet: the
\* tuple is rebuilt from orderParams with encodeTimelocks at the time of the
\* call; a transaction is sent only after its static call succeeded
WithdrawFromEthereumEscrow(addr, secret, p, t) ==
  LET contractBalance == IF addr \in DOMAIN ledger THEN ledger[addr].eth ELSE 0
      immutables == SrcImmutables(p, t)
  IN
  IF Keccak(secret) # p.secretHash
    THEN WithdrawalFailed("Secret hash verification failed")
  ELSE IF contractBalance < p.amount + p.safetyDeposit
    THEN WithdrawalFailed("Insufficient contract balance")
  ELSE IF t >= p.timelocks.cancellationStart
    THEN WithdrawalFailed("Withdrawal period has expired")
  ELSE IF t < p.timelocks.withdrawalStart
    THEN WithdrawalFailed("Too early to withdraw")
  ELSE
    LET first == IF t >= p.timelocks.publicWithdrawalStart
                   THEN "publicWithdraw" ELSE "withdrawTo"
        res1  == EscrowSrcCall(ledger[addr], t, first, Resolver, secret,
                               Resolver, immutables)
        res2  == EscrowSrcCall(ledger[addr], t, FallbackEntryPoint(first),
                               Resolver, secret, Resolver, immutables)
    IN IF res1.ok
         THEN [ok |-> TRUE, error |-> NoError,
               ledger |-> [ledger EXCEPT ![addr] = res1.esc],
               attempts |-> << Attempt("ethereum", first, TRUE) >>]
       ELSE IF res2.ok
         THEN [ok |-> TRUE, error |-> NoError,
               ledger |-> [ledger EXCEPT ![addr] = res2.esc],
               attempts |-> << Attempt("ethereum", FallbackEntryPoint(first), TRUE) >>]
       ELSE WithdrawalFailed("All withdrawal methods failed")

\* the transactions of one withdrawal, as entries of the log of request r
Sent(r, step, attempts) ==
  { [req |-> r, step |-> step, n |-> i, tx |-> attempts[i]] :
      i \in DOMAIN attempts }

(***************************************************************************)
(* handleSecretRevelation: the secret as the request body carries it.      *)
(***************************************************************************)
\* a 0x-prefixed 66-character string, a JSON array of 32 bytes, or JSON that
\* is not an array
SecretInputs ==
  { [fmt |-> "hex", val |-> "s1"], [fmt |-> "hex", val |-> "s2"],
    [fmt |-> "array", val |-> "s1"], [fmt |-> "object", val |-> "s1"] }

\* the secret normalised to bytes32: the string itself, or hexlify of the array
NormalizeSecret(input) ==
  CASE input.fmt = "hex"   -> [ok |-> TRUE, bytes |-> input.val]
    [] input.fmt = "array" -> [ok |-> TRUE, bytes |-> input.val]
    [] OTHER               -> [ok |-> FALSE, bytes |-> "none"]

SecretMismatch == "Invalid secret provided - hash does not match"

\* the comparison left out: every secret passes
HashMismatchSkipped(secretBytes, order) == FALSE

\* handleSecretRevelation: secretHash !== order.secretHash
HashMismatch(secretBytes, order) == Keccak(secretBytes) # order.secretHash

(***************************************************************************)
(* Spec: the handlers of the HTTP routes.  A handler runs from one await   *)
(* to the next without interruption; between awaits any other handler may  *)
(* run.  reqs[r] holds handler r's position (pc), its locals and, once it   *)
(* is done, its response.                                                  *)
(***************************************************************************)
Request(kind, orderId) ==
  [ kind |-> kind, orderId |-> orderId, pc |-> "done",
    body |-> "none",          \* req.body
    obj |-> 0,                \* the order object the handler holds
    order |-> "none", params |-> "none",      \* handleNewOrder
    secret |-> "none", seen |-> "none", txs |-> << >>,  \* handleSecretRevelation
    sourceStatus |-> "none", targetStatus |-> "none",   \* getOrderStatus
    receipt |-> "none",                                 \* handleUserFunding
    deploymentType |-> "none",                          \* handleNewOrder's response
    success |-> FALSE, error |-> NoError, status |-> "none" ]

Rejected(req, err) == [req EXCEPT !.pc = "done", !.success = FALSE, !.error = err]
Answered(req, st)  == [req EXCEPT !.pc = "done", !.success = TRUE, !.status = st]

Init ==
  /\ now = 0
  /\ ledger = << >>
  /\ lastCall = NoCall
  /\ activeOrders = << >>
  /\ heap = << >>
  /\ reqs = << >>
  /\ submitted = {}

\* a map that stores one record for all the order ids
MapSetShared(orderId, obj) ==
  [id \in DOMAIN activeOrders \cup {orderId} |-> obj]

\* this.activeOrders.set(orderId, object)
MapSet(orderId, obj) == (orderId :> obj) @@ activeOrders

\* the last time at which an order is submitted
LastArrival == 0

\* POST /api/orders: handleNewOrder up to its first await.  The body is an
\* order of createCrossChainOrder for any secret, signed or not.  The
\* signature is not verified; validateOrderForResolver and
\* extractOrderDeploymentParams run at once.
HandleNewOrder(order) ==
  LET err == ValidateOrderForResolver(order, now)
      req == Request("newOrder", order.orderId)
  IN reqs' = Append(reqs,
       IF err # NoError
         THEN Rejected(req, err)
         ELSE [req EXCEPT !.pc = "deploySource", !.order = order,
                          !.params = ExtractOrderDeploymentParams(order, now)])

NewOrderStartFor(ids) ==
  /\ Len(reqs) < MaxRequests
  /\ now <= LastArrival
  /\ \E orderId \in ids, s \in Secrets, sig \in {"signed", ""} :
       HandleNewOrder([CreateCrossChainOrder(orderId, s, now)
                         EXCEPT !.signature = sig])
  /\ UNCHANGED <<now, ledger, lastCall, activeOrders, heap, submitted>>

NewOrderStart == NewOrderStartFor(OrderIds)

\* handleNewOrder's response: deploymentType is 'real' when the source
\* address is 0x and 40 hex digits without a run of nine zeros, as the
\* address of a deployed contract is; the fallback address is a short random
\* number padded with zeros
DeploymentType(sourceContract) ==
  IF sourceContract.contractAddress[1] = "eth" THEN "real" ELSE "mock"

\* handleNewOrder: orderRecord is built and stored under the order id,
\* whatever the Map holds there
StoreOrder(r, sourceContract, targetContract) ==
  /\ heap' = (r :> OrderRecord(reqs[r].order, reqs[r].params,
                               sourceContract, targetContract)) @@ heap
  /\ activeOrders' = MapSet(reqs[r].orderId, r)
  /\ reqs' = [reqs EXCEPT
                ![r] = [Answered(@, "contracts_deployed")
                          EXCEPT !.deploymentType = DeploymentType(sourceContract)]]

\* the accounts of the maker and of the resolver on the Ethereum ledger
MakerWallet    == <<"wallet", 1>>
ResolverWallet == <<"wallet", 2>>

\* the ledger after account from paid n; an account the ledger does not
\* track has funds without limit
CanPay(l, from, n) == from \in DOMAIN l => l[from].eth >= n
PaidBy(l, from, n) == IF from \in DOMAIN l THEN [l EXCEPT ![from].eth = @ - n] ELSE l

\* await deployEthereumSourceEscrow: the contract is created holding
\* amount + safetyDeposit, sent by the resolver's wallet with the deployment,
\* or the deployment throws and the mock pair is stored instead
NewOrderDeploySource(r) ==
  /\ reqs[r].kind = "newOrder" /\ reqs[r].pc = "deploySource"
  /\ \E deployed \in BOOLEAN :
       IF deployed /\ CanPay(ledger, ResolverWallet,
                             reqs[r].params.amount + reqs[r].params.safetyDeposit)
         THEN /\ ledger' = (EthAddr(r) :> DeployedSrcEscrow(reqs[r].params, now))
                           @@ PaidBy(ledger, ResolverWallet,
                                     reqs[r].params.amount + reqs[r].params.safetyDeposit)
              /\ reqs' = [reqs EXCEPT ![r].pc = "deployDestination"]
              /\ UNCHANGED <<activeOrders, heap>>
         ELSE /\ StoreOrder(r, MockSourceContract(r), MockTargetContract(r))
              /\ UNCHANGED ledger
  /\ UNCHANGED <<now, lastCall, submitted>>

\* await deployTezosDestinationEscrow, then the record is stored
NewOrderDeployDestination(r) ==
  /\ reqs[r].kind = "newOrder" /\ reqs[r].pc = "deployDestination"
  /\ \E deployed \in BOOLEAN :
       IF deployed
         THEN /\ ledger' = (TezAddr(r) :> DeployedDstEscrow(reqs[r].params)) @@ ledger
              /\ StoreOrder(r, RealSourceContract(r), RealTargetContract(r))
         ELSE /\ StoreOrder(r, MockSourceContract(r), MockTargetContract(r))
              /\ UNCHANGED ledger
  /\ UNCHANGED <<now, lastCall, submitted>>

\* POST /api/orders/:orderId/reveal: handleSecretRevelation up to its first
\* await.  The record is looked up, the secret normalised and hashed, and the
\* hash compared with the record's; nothing else is checked before
\* executeWithdrawals is entered.
RevealStartFor(ids) ==
  /\ Len(reqs) < MaxRequests
  /\ \E orderId \in ids, input \in SecretInputs :
       LET req  == [Request("reveal", orderId) EXCEPT !.body = input]
           norm == NormalizeSecret(input)
       IN reqs' = Append(reqs,
            IF orderId \notin DOMAIN activeOrders
              THEN Rejected(req, "Order not found")
            ELSE IF ~norm.ok
              THEN Rejected(req, "Invalid secret format")
            ELSE IF HashMismatch(norm.bytes, heap[activeOrders[orderId]])
              THEN Rejected(req, SecretMismatch)
            ELSE [req EXCEPT !.pc = "withdrawDestination",
                             !.obj = activeOrders[orderId],
                             !.secret = norm.bytes,
                             !.seen = heap[activeOrders[orderId]].status])
  /\ UNCHANGED <<now, ledger, lastCall, activeOrders, heap, submitted>>

RevealStart == RevealStartFor(OrderIds)

\* the destination leg is abandoned when it fails
AfterTezosWithdrawalAbort(ok) == IF ok THEN "withdrawSource" ELSE "done"

\* executeWithdrawals: the error of withdrawFromTezosEscrow is caught and
\* logged, and the handler goes on to the Ethereum withdrawal either way
AfterTezosWithdrawal(ok) == "withdrawSource"

\* executeWithdrawals, step 1: await withdrawFromTezosEscrow; its error is
\* caught and logged, its transaction hash is kept on success
RevealWithdrawDestination(r) ==
  /\ reqs[r].kind = "reveal" /\ reqs[r].pc = "withdrawDestination"
  /\ LET order == heap[reqs[r].obj]
         res   == WithdrawFromTezosEscrow(order.targetContract.contractAddress,
                                          reqs[r].secret, order.orderParams, now)
     IN /\ ledger' = res.ledger
        /\ submitted' = submitted \cup Sent(r, 1, res.attempts)
        /\ reqs' = [reqs EXCEPT ![r].pc = AfterTezosWithdrawal(res.ok),
                                ![r].txs = IF res.ok THEN << "destination_withdrawal" >>
                                                     ELSE << >>]
  /\ UNCHANGED <<now, lastCall, activeOrders, heap>>

\* executeWithdrawals, step 2: await withdrawFromEthereumEscrow; its error is
\* caught and logged.  Then the handler marks the order it holds completed
\* and stores it under the order id.
RevealWithdrawSource(r) ==
  /\ reqs[r].kind = "reveal" /\ reqs[r].pc = "withdrawSource"
  /\ LET order == heap[reqs[r].obj]
         res   == WithdrawFromEthereumEscrow(order.sourceContract.contractAddress,
                                             reqs[r].secret, order.orderParams, now)
     IN /\ ledger' = res.ledger
        /\ submitted' = submitted \cup Sent(r, 2, res.attempts)
        /\ heap' = [heap EXCEPT ![reqs[r].obj] =
                     [@ EXCEPT !.withdrawalTransactions = reqs[r].txs,
                               !.status = "completed",
                               !.revealedSecret = reqs[r].secret]]
        /\ activeOrders' = MapSet(reqs[r].orderId, reqs[r].obj)
        /\ reqs' = [reqs EXCEPT ![r] = Answered(@, "completed")]
  /\ UNCHANGED <<now, lastCall>>

\* GET /api/orders/:orderId/status: getOrderStatus up to its first await
StatusStartFor(ids) ==
  /\ Len(reqs) < MaxRequests
  /\ \E orderId \in ids :
       LET req == Request("status", orderId)
       IN reqs' = Append(reqs,
            IF orderId \notin DOMAIN activeOrders
              THEN Rejected(req, "Order not found")
              ELSE [req EXCEPT !.pc = "checkSource", !.obj = activeOrders[orderId]])
  /\ UNCHANGED <<now, ledger, lastCall, activeOrders, heap, submitted>>

StatusStart == StatusStartFor(OrderIds)

\* await checkContractStatusOnChain(sourceContract)
StatusCheckSource(r) ==
  /\ reqs[r].kind = "status" /\ reqs[r].pc = "checkSource"
  /\ \E read \in ReadOutcomes :
       LET order == heap[reqs[r].obj]
       IN reqs' = [reqs EXCEPT
                     ![r].pc = "checkTarget",
                     ![r].sourceStatus =
                        CheckContractStatusOnChain(order.sourceContract,
                                                   order.orderParams, read)]
  /\ UNCHANGED <<now, ledger, lastCall, activeOrders, heap, submitted>>

\* await checkContractStatusOnChain(targetContract), then: if both contracts
\* are deployed and funded and the status is not ready_for_reveal, it is set
\* to ready_for_reveal and the object stored under the order id
StatusCheckTarget(r) ==
  /\ reqs[r].kind = "status" /\ reqs[r].pc = "checkTarget"
  /\ \E read \in ReadOutcomes :
       LET order == heap[reqs[r].obj]
           sourceStatus == reqs[r].sourceStatus
           targetStatus == CheckContractStatusOnChain(order.targetContract,
                                                      order.orderParams, read)
           bothContractsReady == /\ sourceStatus.deployed /\ sourceStatus.funded
                                 /\ targetStatus.deployed /\ targetStatus.funded
       IN IF bothContractsReady /\ order.status # "ready_for_reveal"
            THEN /\ heap' = [heap EXCEPT ![reqs[r].obj].status = "ready_for_reveal"]
                 /\ activeOrders' = MapSet(reqs[r].orderId, reqs[r].obj)
                 /\ reqs' = [reqs EXCEPT
                               ![r] = [Answered(@, "ready_for_reveal")
                                         EXCEPT !.targetStatus = targetStatus]]
            ELSE /\ reqs' = [reqs EXCEPT
                               ![r] = [Answered(@, order.status)
                                         EXCEPT !.targetStatus = targetStatus]]
                 /\ UNCHANGED <<activeOrders, heap>>
  /\ UNCHANGED <<now, ledger, lastCall, submitted>>

\* POST /api/orders/:orderId/fund-tezos: handleTezosUserFunding.  The
\* confirmation is accepted without looking at the ledger.
TezosUserFundingFor(ids) ==
  /\ Len(reqs) < MaxRequests
  /\ \E orderId \in ids :
       LET req == Request("fund-tezos", orderId)
           obj == activeOrders[orderId]
       IN IF orderId \notin DOMAIN activeOrders
            THEN /\ reqs' = Append(reqs, Rejected(req, "Order not found"))
                 /\ UNCHANGED heap
          ELSE IF ~heap[obj].sourceContract.requiresUserFunding
            THEN /\ reqs' = Append(reqs, Rejected(req, "Order does not require user funding"))
                 /\ UNCHANGED heap
          ELSE /\ heap' = [heap EXCEPT ![obj].sourceContract.funded = TRUE,
                                       ![obj].sourceContract.requiresUserFunding = FALSE,
                                       ![obj].status = "funded"]
               /\ reqs' = Append(reqs, Answered(req, "funded"))
  /\ UNCHANGED <<now, ledger, lastCall, activeOrders, submitted>>

TezosUserFunding == TezosUserFundingFor(OrderIds)

\* handleUserApproval up to its first await: the request as it stands then;
\* the transfer and the update of the record follow in later steps
HandleUserApproval(orderId) ==
  LET req == Request("approve", orderId)
      obj == activeOrders[orderId]
  IN IF orderId \notin DOMAIN activeOrders
       THEN Rejected(req, "Order not found")
     ELSE IF heap[obj].sourceContract.funded
       THEN Rejected(req, "Order is already funded")
     ELSE IF ~heap[obj].sourceContract.requiresApproval
       THEN Rejected(req, "Order does not require approval")
     ELSE [req EXCEPT !.pc = "transfer", !.obj = obj]

\* POST /api/orders/:orderId/approve
UserApprovalFor(ids) ==
  /\ Len(reqs) < MaxRequests
  /\ \E orderId \in ids : reqs' = Append(reqs, HandleUserApproval(orderId))
  /\ UNCHANGED <<now, ledger, lastCall, activeOrders, heap, submitted>>

UserApproval == UserApprovalFor(OrderIds)

Next ==
  \/ Tick
  \/ NewOrderStart
  \/ \E r \in DOMAIN reqs : NewOrderDeploySource(r)
  \/ \E r \in DOMAIN reqs : NewOrderDeployDestination(r)
  \/ RevealStart
  \/ \E r \in DOMAIN reqs : RevealWithdrawDestination(r)
  \/ \E r \in DOMAIN reqs : RevealWithdrawSource(r)
  \/ StatusStart
  \/ \E r \in DOMAIN reqs : StatusCheckSource(r)
  \/ \E r \in DOMAIN reqs : StatusCheckTarget(r)
  \/ TezosUserFunding
  \/ UserApproval

Spec == Init /\ [][Next]_vars

(***************************************************************************)
(* Claims about the resolver service (Spec).                               *)
(***************************************************************************)
\* the status of the record stored under an order id
StatusOf(orderId) == heap[activeOrders[orderId]].status

Rank(st) ==
  CASE st = "created"            -> 0
    [] st = "contracts_deployed" -> 1
    [] st = "funded"             -> 2
    [] st = "ready_for_reveal"   -> 3
    [] st = "completed"          -> 4

\* C6: the status of an order only advances along created ->
\* contracts_deployed -> funded -> ready_for_reveal -> completed: no step
\* moves the record stored under an order id to an earlier status.
C6_StatusOnlyAdvances ==
  [][\A o \in DOMAIN activeOrders :
       Rank(heap'[activeOrders'[o]].status) >= Rank(StatusOf(o))]_vars

InFlight(r) == reqs[r].pc # "done"
SentBy(r) == { tx \in submitted : tx.req = r }

\* C7: a reveal request that arrives for an order already completed is
\* rejected as already completed and sends no withdrawal.
C7_CompletedRevealRejected ==
  \A r \in DOMAIN reqs :
    (reqs[r].kind = "reveal" /\ reqs[r].seen = "completed") =>
      /\ reqs[r].pc = "done" /\ ~reqs[r].success
      /\ reqs[r].error = "Order already completed"
      /\ SentBy(r) = {}

\* C8: at most one reveal/withdrawal attempt is in flight per order at a time.
C8_OneRevealInFlight ==
  \A i, j \in DOMAIN reqs :
    ( /\ i # j
      /\ reqs[i].kind = "reveal" /\ reqs[j].kind = "reveal"
      /\ reqs[i].orderId = reqs[j].orderId )
    => ~(InFlight(i) /\ InFlight(j))

\* C9: at most one deployment attempt is in flight per order id at a time.
C9_OneDeploymentInFlight ==
  \A i, j \in DOMAIN reqs :
    ( /\ i # j
      /\ reqs[i].kind = "newOrder" /\ reqs[j].kind = "newOrder"
      /\ reqs[i].orderId = reqs[j].orderId )
    => ~(InFlight(i) /\ InFlight(j))

\* the step in which a reveal request arrives whose secret normalises to
\* bytes that do not hash to the secret hash of the stored record
MismatchingRevealArrives ==
  /\ Len(reqs') = Len(reqs) + 1
  /\ LET req == reqs'[Len(reqs')]
     IN /\ req.kind = "reveal"
        /\ req.orderId \in DOMAIN activeOrders
        /\ req.body.fmt \in {"hex", "array"}
        /\ Keccak(req.body.val) # heap[activeOrders[req.orderId]].secretHash

\* C10: a revealed secret whose hash differs from the order's secret hash is
\* rejected with the secret-mismatch error in the step it arrives: no
\* withdrawal is sent, the ledger is untouched, and the order's record and
\* status stay as they were.
C10_SecretMismatchRejected ==
  [][MismatchingRevealArrives =>
       LET req == reqs'[Len(reqs')]
       IN /\ req.pc = "done" /\ ~req.success /\ req.error = SecretMismatch
          /\ submitted' = submitted /\ ledger' = ledger
          /\ heap' = heap /\ activeOrders' = activeOrders]_vars

\* a reveal with a wrong secret has been answered while the order it names
\* has both escrows deployed
C10_Witness ==
  \E r \in DOMAIN reqs :
    /\ reqs[r].kind = "reveal" /\ reqs[r].pc = "done"
    /\ reqs[r].body = [fmt |-> "hex", val |-> "s2"]
    /\ reqs[r].error = SecretMismatch
    /\ reqs[r].orderId \in DOMAIN activeOrders
    /\ heap[activeOrders[reqs[r].orderId]].sourceContract.contractAddress \in DOMAIN ledger

\* the escrows of the order a reveal request holds
SourceOf(r) == heap[reqs[r].obj].sourceContract.contractAddress
TargetOf(r) == heap[reqs[r].obj].targetContract.contractAddress

IsWithdrawn(addr) == addr \in DOMAIN ledger /\ ledger[addr].withdrawn

\* C11: after a matching secret the destination withdrawal is attempted, then
\* the source withdrawal whatever the outcome of the first; neither leg
\* touches the other's escrow, and the destination leg's recorded result is
\* kept whether or not the source leg fails.
C11_LegsIndependent ==
  [][\A r \in DOMAIN reqs :
       /\ (reqs[r].pc = "withdrawDestination" /\ reqs'[r].pc # "withdrawDestination")
            => /\ reqs'[r].pc = "withdrawSource"
               /\ \A a \in DOMAIN ledger : a # TargetOf(r) => ledger'[a] = ledger[a]
       /\ (reqs[r].pc = "withdrawSource" /\ reqs'[r].pc # "withdrawSource")
            => /\ \A a \in DOMAIN ledger : a # SourceOf(r) => ledger'[a] = ledger[a]
               /\ heap'[reqs[r].obj].withdrawalTransactions = reqs[r].txs]_vars

\* a reveal has ended with the destination withdrawn and recorded although
\* its source leg failed
C11_Witness ==
  \E r \in DOMAIN reqs :
    /\ reqs[r].kind = "reveal" /\ reqs[r].pc = "done" /\ reqs[r].success
    /\ SentBy(r) # {} /\ \A tx \in SentBy(r) : tx.tx.chain = "tezos"
    /\ IsWithdrawn(TargetOf(r)) /\ ~IsWithdrawn(SourceOf(r))
    /\ heap[reqs[r].obj].withdrawalTransactions # << >>

\* the record the reveal request r holds is that of a deployed and funded
\* pair: the destination escrow has just paid out to this request, the source
\* escrow still holds its funds
PairDeployedAndFunded(r) ==
  LET order == heap[reqs[r].obj]
  IN /\ order.sourceContract.funded
     /\ CheckContractStatusOnChain(order.sourceContract, order.orderParams, "ok").funded
     /\ reqs[r].txs # << >> /\ IsWithdrawn(TargetOf(r))

\* r is the only accepted reveal, and its order was submitted once
OnlyReveal(r) ==
  /\ \A q \in DOMAIN reqs \ {r} : reqs[q].kind = "reveal" => reqs[q].error # NoError
  /\ Cardinality({q \in DOMAIN reqs : reqs[q].kind = "newOrder"}) = 1

\* C12: Scenario A.  When both escrows are deployed and funded and the
\* correct secret is revealed inside the source withdrawal window (after
\* SrcWithdrawal, before SrcCancellation), the reveal ends with both escrows
\* withdrawn, the order completed, and exactly two withdrawal transactions
\* recorded in the order.
C12_ScenarioA ==
  [][\A r \in DOMAIN reqs :
       LET timelocks == heap[reqs[r].obj].orderParams.timelocks
       IN ( /\ reqs[r].kind = "reveal"
            /\ reqs[r].pc = "withdrawSource" /\ reqs'[r].pc = "done"
            /\ OnlyReveal(r)
            /\ PairDeployedAndFunded(r)
            /\ now >= timelocks.withdrawalStart
            /\ now < timelocks.cancellationStart )
          => /\ IsWithdrawn(SourceOf(r))' /\ IsWithdrawn(TargetOf(r))'
             /\ heap'[reqs[r].obj].status = "completed"
             /\ reqs'[r].status = "completed"
             /\ Len(heap'[reqs[r].obj].withdrawalTransactions) = 2]_vars

\* C13: Scenario B.  A reveal whose destination leg runs at or after the
\* destination cancellation deadline has that leg rejected (nothing is sent
\* to the destination escrow and no destination transaction is recorded);
\* and a reveal whose destination leg failed while its source leg paid out
\* leaves the order partially settled: neither failed nor completed.
C13_ScenarioB ==
  [][\A r \in DOMAIN reqs :
       LET order == heap[reqs[r].obj]
       IN /\ ( /\ reqs[r].kind = "reveal"
               /\ reqs[r].pc = "withdrawDestination"
               /\ reqs'[r].pc # "withdrawDestination"
               /\ now >= order.orderParams.timelocks.dstCancellationStart )
             => /\ reqs'[r].txs = << >>
                /\ ledger' = ledger
          /\ ( /\ reqs[r].kind = "reveal"
               /\ reqs[r].pc = "withdrawSource" /\ reqs'[r].pc = "done"
               /\ reqs[r].txs = << >>
               /\ ~IsWithdrawn(SourceOf(r)) /\ IsWithdrawn(SourceOf(r))' )
             => /\ heap'[reqs[r].obj].status \notin {"completed", "failed"}
                /\ reqs'[r].status \notin {"completed", "failed"}]_vars

(***************************************************************************)
(* SpecTimelocks: the timelocks of one order, from acceptance to the       *)
(* deployed pair, and the codec applied to stage instants.  now is the     *)
(* time of the last step; lastCall holds what the last step computed.      *)
(***************************************************************************)
\* times at which an order arrives
AcceptTimes == {1000, 1000 + FinalityDelay, 1000 + EthLockDuration}

\* srcExpiry - now and dstExpiry - now of the orders that arrive: every one
\* passes validateOrderForResolver, which only wants them positive
SrcLifetimes == {1, EthLockDuration, LaneModulus + 10}
DstLifetimes == {1, TezLockDuration, 2 * EthLockDuration}

\* seconds between extractOrderDeploymentParams and the encodeTimelocks call
\* of the deployment
DeployDelays == {0, 5, 2 * FinalityDelay}

\* the seven stages of the packed timelocks, in lane order
Stages ==
  { "srcWithdrawal", "srcPublicWithdrawal", "srcCancellation",
    "srcPublicCancellation", "dstWithdrawal", "dstPublicWithdrawal",
    "dstCancellation" }

\* deployment timestamps and stage offsets handed to the codec
DeployStamps == {1000, 5000}
StageOffsets == {0, FinalityDelay, LaneModulus + 5}

\* the argument of encodeTimelocks for a deployment timestamp and seven stage
\* instants: the source stages are read as instants, the destination stages
\* as delays from the deployment timestamp
StageInput(deployedAt, instants) ==
  [ deployedAt               |-> deployedAt,
    withdrawalStart          |-> instants["srcWithdrawal"],
    publicWithdrawalStart    |-> instants["srcPublicWithdrawal"],
    cancellationStart        |-> instants["srcCancellation"],
    publicCancellationStart  |-> instants["srcPublicCancellation"],
    dstWithdrawalDelay       |-> instants["dstWithdrawal"] - deployedAt,
    dstPublicWithdrawalDelay |-> instants["dstPublicWithdrawal"] - deployedAt,
    dstCancellationDelay     |-> instants["dstCancellation"] - deployedAt ]

InitTimelocks ==
  /\ now \in AcceptTimes
  /\ ledger = << >>
  /\ lastCall = NoCall
  /\ OrchestratorIdle

\* handleNewOrder: validateOrderForResolver passes and
\* extractOrderDeploymentParams derives the timelocks
AcceptOrder ==
  /\ lastCall = NoCall
  /\ \E srcLife \in SrcLifetimes, dstLife \in DstLifetimes :
       LET order == [CreateCrossChainOrder("o1", MakerSecret, now)
                       EXCEPT !.srcExpiry = now + srcLife,
                              !.dstExpiry = now + dstLife]
       IN /\ ValidateOrderForResolver(order, now) = NoError
          /\ lastCall' = [op |-> "accept", order |-> order,
                          params |-> ExtractOrderDeploymentParams(order, now)]
  /\ UNCHANGED <<now, ledger, activeOrders, heap, reqs, submitted>>

\* deployEthereumSourceEscrow and deployTezosDestinationEscrow for the
\* accepted order
DeployPair ==
  /\ lastCall.op = "accept"
  /\ \E d \in DeployDelays :
       /\ now' = now + d
       /\ ledger' = (EthAddr(1) :> DeployedSrcEscrow(lastCall.params, now + d))
                    @@ (TezAddr(1) :> DeployedDstEscrow(lastCall.params))
  /\ lastCall' = [lastCall EXCEPT !.op = "deploy"]
  /\ UNCHANGED <<activeOrders, heap, reqs, submitted>>

\* encodeTimelocks applied to seven stage instants and a deployment timestamp
EncodeStages ==
  /\ lastCall = NoCall
  /\ \E deployedAt \in DeployStamps, offsets \in [Stages -> StageOffsets] :
       LET instants == [st \in Stages |-> deployedAt + offsets[st]]
       IN lastCall' = [op |-> "encode", deployedAt |-> deployedAt,
                       instants |-> instants,
                       packed |-> EncodeTimelocks(StageInput(deployedAt, instants), now)]
  /\ UNCHANGED <<now, ledger, activeOrders, heap, reqs, submitted>>

NextTimelocks ==
  \/ AcceptOrder
  \/ DeployPair
  \/ EncodeStages

SpecTimelocks == InitTimelocks /\ [][NextTimelocks]_vars

\* the deployed pair of the accepted order
PairDeployed == lastCall.op = "deploy"
SrcPacked == ledger[EthAddr(1)].imm.timelocks
DstStored == ledger[TezAddr(1)].imm.timelocks
Derived == lastCall.params.timelocks

\* C14: for every accepted order the derived instants satisfy SrcWithdrawal
\* <= SrcPublicWithdrawal <= SrcCancellation <= SrcPublicCancellation, and so
\* do the instants decoded from the packed timelocks of the deployed escrow.
C14_StagesOrdered ==
  PairDeployed =>
    /\ Derived.withdrawalStart <= Derived.publicWithdrawalStart
    /\ Derived.publicWithdrawalStart <= Derived.cancellationStart
    /\ Derived.cancellationStart <= Derived.publicCancellationStart
    /\ TimelocksGet(SrcPacked, "srcWithdrawal") <= TimelocksGet(SrcPacked, "srcPublicWithdrawal")
    /\ TimelocksGet(SrcPacked, "srcPublicWithdrawal") <= TimelocksGet(SrcPacked, "srcCancellation")
    /\ TimelocksGet(SrcPacked, "srcCancellation") <= TimelocksGet(SrcPacked, "srcPublicCancellation")

\* C15: for every accepted order the destination escrow as deployed carries
\* a cancellation deadline of its own, strictly earlier than the cancellation
\* start of the source escrow.
C15_DstDeadlineShorter ==
  PairDeployed =>
    /\ DstStored.cancellation < TimelocksGet(SrcPacked, "srcCancellation")
    /\ DstStored.cancellation < Derived.cancellationStart

\* C16: for every accepted order the destination cancellation deadline lies
\* before the instant at which the source exclusive-withdrawal window opens,
\* as derived for the order and as packed for the deployed escrow.
C16_DstClosesBeforeSrcOpens ==
  PairDeployed =>
    /\ Derived.dstCancellationStart < Derived.withdrawalStart
    /\ TimelocksGet(SrcPacked, "dstCancellation") < TimelocksGet(SrcPacked, "srcWithdrawal")

\* C17: for every order the instants the Ethereum escrow decodes from the
\* packed timelocks equal the absolute instants stored in the Tezos escrow,
\* for withdrawal, public withdrawal, cancellation, public cancellation and
\* the destination cancellation.
C17_SameInstantsOnBothLedgers ==
  PairDeployed =>
    /\ TimelocksGet(SrcPacked, "srcWithdrawal") = DstStored.withdrawal
    /\ TimelocksGet(SrcPacked, "srcPublicWithdrawal") = DstStored.publicWithdrawal
    /\ TimelocksGet(SrcPacked, "srcCancellation") = DstStored.cancellation
    /\ TimelocksGet(SrcPacked, "srcPublicCancellation") = DstStored.publicCancellation
    /\ TimelocksGet(SrcPacked, "dstCancellation") = DstStored.cancellation

\* C18: codec round trip.  Encoding seven stage instants and a deployment
\* timestamp and decoding each lane (deployment timestamp plus offset) gives
\* back the seven instants.
C18_CodecRoundTrip ==
  lastCall.op = "encode" =>
    \A st \in Stages : TimelocksGet(lastCall.packed, st) = lastCall.instants[st]

\* C20: one secret per order.  The secretHash of the record held under an
\* order id never changes once the order is accepted, and a secret recorded
\* as revealed hashes to the secretHash of its record.
C20_OneSecretPerOrder ==
  [][\A id \in DOMAIN activeOrders' :
       LET record == heap'[activeOrders'[id]]
       IN /\ id \in DOMAIN activeOrders
               => record.secretHash = heap[activeOrders[id]].secretHash
          /\ record.revealedSecret # "none"
               => Keccak(record.revealedSecret) = record.secretHash]_vars

(***************************************************************************)
(* Claims about recovery, funding checks and order submission.             *)
(***************************************************************************)
\* the instance still holds principal and deposit, and the secret was not used
HoldsFunds(esc) ==
  /\ ~esc.withdrawn /\ ~esc.cancelled
  /\ esc.eth >= esc.imm.amount + esc.imm.safetyDeposit

LiveFunded(contractInfo, p) ==
  LET addr == contractInfo.contractAddress
  IN /\ addr \in DOMAIN ledger
     /\ IF contractInfo.contractType \in {"ethereum-source", "ethereum-destination"}
          THEN ledger[addr].eth >= p.amount + p.safetyDeposit
          ELSE ledger[addr].eth >= p.tezosAmount + p.tezosSafetyDeposit

SourceChecked(r) ==
  reqs[r].kind = "status" /\ reqs[r].pc = "checkSource" /\ reqs'[r].pc = "checkTarget"

TargetChecked(r) ==
  reqs[r].kind = "status" /\ reqs[r].pc = "checkTarget" /\ reqs'[r].pc = "done"

\* C22: the funding check reports a leg funded exactly when the balance of
\* its escrow, read from the ledger at the time of the check, covers the
\* principal plus the deposit; the answer never comes from a stored flag,
\* also when a ledger read fails.
C22_FundingReadLive ==
  [][\A r \in DOMAIN reqs :
       LET order == heap[reqs[r].obj]
       IN /\ SourceChecked(r)
               => ( reqs'[r].sourceStatus.funded
                      <=> LiveFunded(order.sourceContract, order.orderParams) )
          /\ TargetChecked(r)
               => ( reqs'[r].targetStatus.funded
                      <=> LiveFunded(order.targetContract, order.orderParams) )]_vars

\* C23: a funding check made while an escrow of the order holds less than
\* required reports that leg as not funded and leaves the order's status at
\* contracts_deployed; the order never becomes failed.
C23_ScenarioC ==
  [][\A r \in DOMAIN reqs :
       LET order == heap[reqs[r].obj]
       IN /\ ( /\ SourceChecked(r)
               /\ ~LiveFunded(order.sourceContract, order.orderParams) )
             => ~reqs'[r].sourceStatus.funded
          /\ ( /\ TargetChecked(r)
               /\ order.status = "contracts_deployed"
               /\ \/ ~LiveFunded(order.targetContract, order.orderParams)
                  \/ ~reqs[r].sourceStatus.funded )
             => /\ ~LiveFunded(order.targetContract, order.orderParams)
                     => ~reqs'[r].targetStatus.funded
                /\ heap'[reqs[r].obj].status = "contracts_deployed"
                /\ reqs'[r].status = "contracts_deployed"]_vars


(***************************************************************************)
(* SpecFunding: the routes together with handleUserFunding, the service's  *)
(* confirmation of a funding transaction named by the client.              *)
(***************************************************************************)
\* provider.getTransactionReceipt found nothing under the hash
NoReceipt == [status |-> 0, to |-> <<"none", 0>>, value |-> 0]

\* the transactions a client can name for an order: none, or one on the
\* ledger that failed or succeeded, was sent to the order's source escrow or
\* to another account, and carried nothing or the order's amount plus deposit
Receipts(order) ==
  {NoReceipt} \cup
  [ status : {0, 1},
    to     : {order.sourceContract.contractAddress, EthAddr(0)},
    value  : {0, order.orderParams.amount + order.orderParams.safetyDeposit} ]

\* verifyFundingTransaction: the receipt exists, its status is 1 and its
\* recipient is the source contract of the order; any error gives false
VerifyFundingTransaction(order, receipt, read) ==
  /\ read = "ok"
  /\ receipt # NoReceipt
  /\ receipt.status = 1
  /\ receipt.to = order.sourceContract.contractAddress

\* handleUserFunding up to its await
UserFundingStartFor(ids) ==
  /\ Len(reqs) < MaxRequests
  /\ \E orderId \in ids :
       LET req == Request("fund", orderId)
       IN IF orderId \notin DOMAIN activeOrders
            THEN reqs' = Append(reqs, Rejected(req, "Order not found"))
          ELSE IF ~heap[activeOrders[orderId]].awaitingFunding
            THEN reqs' = Append(reqs, Rejected(req, "Order is not awaiting funding"))
          ELSE \E receipt \in Receipts(heap[activeOrders[orderId]]) :
                 reqs' = Append(reqs, [req EXCEPT !.pc = "verifyFunding",
                                                  !.obj = activeOrders[orderId],
                                                  !.receipt = receipt])
  /\ UNCHANGED <<now, ledger, lastCall, activeOrders, heap, submitted>>

UserFundingStart == UserFundingStartFor(OrderIds)

\* handleUserFunding after await verifyFundingTransaction
UserFundingVerify(r) ==
  /\ reqs[r].kind = "fund" /\ reqs[r].pc = "verifyFunding"
  /\ \E read \in {"ok", "unavailable"} :
       IF VerifyFundingTransaction(heap[reqs[r].obj], reqs[r].receipt, read)
         THEN /\ heap' = [heap EXCEPT ![reqs[r].obj].status = "funded",
                                      ![reqs[r].obj].awaitingFunding = FALSE]
              /\ activeOrders' = MapSet(reqs[r].orderId, reqs[r].obj)
              /\ reqs' = [reqs EXCEPT ![r] = Answered(@, "funded")]
         ELSE /\ reqs' = [reqs EXCEPT ![r] = Rejected(@, "Invalid funding transaction")]
              /\ UNCHANGED <<activeOrders, heap>>
  /\ UNCHANGED <<now, ledger, lastCall, submitted>>

NextFunding ==
  \/ Next
  \/ UserFundingStart
  \/ \E r \in DOMAIN reqs : UserFundingVerify(r)

SpecFunding == Init /\ [][NextFunding]_vars

\* C24: an order becomes funded through a funding confirmation only when the
\* transaction named by the client is on the ledger, succeeded, was sent to
\* the order's source escrow and carried at least the order's amount plus
\* safety deposit.
C24_FundedOnlyAfterVerification ==
  [][\A r \in DOMAIN reqs :
       LET order   == heap[reqs[r].obj]
           receipt == reqs[r].receipt
       IN ( /\ reqs[r].kind = "fund" /\ reqs[r].pc = "verifyFunding"
            /\ heap'[reqs[r].obj].status = "funded" )
          => /\ receipt # NoReceipt
             /\ receipt.status = 1
             /\ receipt.to = order.sourceContract.contractAddress
             /\ receipt.value >= order.orderParams.amount + order.orderParams.safetyDeposit]_vars


(***************************************************************************)
(* SpecSubmit: POST /api/orders with any body.                             *)
(***************************************************************************)
\* an expiry that lies in the future at time 0 and in the past from 30 on
EarlyExpiry == 30

\* the bodies a client can post at time t: an order of createCrossChainOrder
\* with at most one field replaced; the order built by the web client is the
\* one without a secret in its metadata
OrderBodies(t) ==
  LET base == CreateCrossChainOrder("o1", "s1", t)
  IN {base}
     \cup { [base EXCEPT !.signature = sig] : sig \in {"forged", ""} }
     \cup { [base EXCEPT !.maker = m] : m \in {ETH, "", "0xnothex"} }
     \cup { [base EXCEPT !.srcExpiry = EarlyExpiry], [base EXCEPT !.dstExpiry = EarlyExpiry] }
     \cup { [base EXCEPT !.makingAmount = 0], [base EXCEPT !.takingAmount = 0] }
     \cup { [base EXCEPT !.metadata.secret = "none"] }

\* the last time at which a body is posted, and at which the clock stops
LastSubmission == 30

SubmitOrder ==
  /\ Len(reqs) < MaxRequests
  /\ now <= LastSubmission
  /\ \E order \in OrderBodies(now) : HandleNewOrder(order)
  /\ UNCHANGED <<now, ledger, lastCall, activeOrders, heap, submitted>>

\* the clock moves until the last submission
TickSubmit == Tick /\ now < LastSubmission

NextSubmit ==
  \/ TickSubmit
  \/ SubmitOrder
  \/ \E r \in DOMAIN reqs : NewOrderDeploySource(r)
  \/ \E r \in DOMAIN reqs : NewOrderDeployDestination(r)

SpecSubmit == Init /\ [][NextSubmit]_vars

\* the signer of a signature: wallet.signTypedData of the maker gives
\* "signed", of another key "forged"
RecoveredAddress(signature) ==
  CASE signature = "signed" -> Maker
    [] signature = "forged" -> Holder
    [] OTHER -> "none"

\* verifyOrderSignature: the address recovered from the typed-data signature
\* is the maker of the order; a signature that cannot be parsed gives false
VerifyOrderSignature(order) ==
  /\ order.signature \in {"signed", "forged"}
  /\ RecoveredAddress(order.signature) = order.maker

\* the handler went past validateOrderForResolver
Accepted(req) == req.pc # "done" \/ req.success

\* C25: every order that reaches deployment or is stored has a signature that
\* recovers to its maker: an order signed by anybody else is rejected before
\* any contract is deployed and leaves no record.
C25_SignatureVerifiedFirst ==
  \A r \in DOMAIN reqs :
    (reqs[r].kind = "newOrder" /\ Accepted(reqs[r]))
      => VerifyOrderSignature(reqs[r].order)

\* the checks the acceptance of an order is said to make at time t
WellFormedOrder(order, t) ==
  /\ order.orderId # "" /\ order.maker # "" /\ order.signature # ""
  /\ IsAddress(order.maker) /\ order.maker # ETH
  /\ order.makingAmount > 0 /\ order.takingAmount > 0
  /\ order.srcExpiry > t /\ order.dstExpiry > t

Submitted == Len(reqs') = Len(reqs) + 1 /\ reqs'[Len(reqs')].kind = "newOrder"

\* C26: an order is accepted only if its required fields are present, its
\* maker is a well-formed address other than the zero address, both amounts
\* are positive and both expiries lie in the future; any other order is
\* refused at once with an error, nothing is deployed and nothing is stored.
C26_OnlyValidOrdersAccepted ==
  [][Submitted =>
       LET req == reqs'[Len(reqs')]
       IN /\ Accepted(req) => WellFormedOrder(req.order, now)
          /\ ~Accepted(req)
               => /\ req.error # NoError
                  /\ UNCHANGED <<ledger, heap, activeOrders>>]_vars


\* the steps of the order lifecycle
Successor(a, b) ==
  \/ a = "created" /\ b = "contracts_deployed"
  \/ a = "contracts_deployed" /\ b = "funded"
  \/ a = "funded" /\ b = "ready_for_reveal"
  \/ a = "ready_for_reveal" /\ b = "completed"
  \/ b = "failed" /\ a \notin {"completed", "failed"}

\* C27: every change of the status of an order record is one step along
\* created -> contracts_deployed -> funded -> ready_for_reveal -> completed,
\* or a move to failed from a status that is not final; no status is skipped
\* and completed is entered from ready_for_reveal only.
C27_StatusStepsInOrder ==
  [][\A o \in DOMAIN heap :
       heap'[o].status # heap[o].status
         => Successor(heap[o].status, heap'[o].status)]_vars

\* the contract is a placeholder of handleNewOrder's fallback
IsMock(contractInfo) == contractInfo.contractAddress[1] \in {"mock-eth", "mock-tez"}

\* C28: a placeholder escrow is labelled as one: the response to the
\* submission says the deployment is a mock, and no later status query
\* reports a placeholder as deployed or as funded.
C28_MockNeverReportedReal ==
  [][\A r \in DOMAIN reqs :
       LET order == heap[reqs[r].obj]
       IN /\ ( /\ reqs[r].kind = "newOrder" /\ reqs[r].pc # "done"
               /\ reqs'[r].pc = "done"
               /\ IsMock(heap'[r].sourceContract) )
             => reqs'[r].deploymentType = "mock"
          /\ (SourceChecked(r) /\ IsMock(order.sourceContract))
               => /\ ~reqs'[r].sourceStatus.deployed
                  /\ ~reqs'[r].sourceStatus.funded
          /\ (TargetChecked(r) /\ IsMock(order.targetContract))
               => /\ ~reqs'[r].targetStatus.deployed
                  /\ ~reqs'[r].targetStatus.funded]_vars


\* a reveal of the order's secret has been requested
RevealCalled(orderId) ==
  \E q \in DOMAIN reqs : reqs[q].kind = "reveal" /\ reqs[q].orderId = orderId

\* C30: the secret of an order stays with its maker until the reveal: as long
\* as no reveal has been requested for an order, the resolver holds no value
\* that hashes to the order's secretHash.
C30_SecretWithheld ==
  \A r \in DOMAIN reqs :
    ( /\ reqs[r].kind = "newOrder" /\ Accepted(reqs[r])
      /\ ~RevealCalled(reqs[r].orderId) )
    => Keccak(reqs[r].params.secret) # reqs[r].order.secretHash


(***************************************************************************)
(* SpecCustody: the web client's submission.  The maker first transfers    *)
(* the making amount to the resolver's account, then posts the order; the  *)
(* resolver deploys the source escrow with funds of its own account.       *)
(***************************************************************************)
\* what the two accounts hold before any order
MakerFunds    == 100
ResolverFunds == 2

InitCustody ==
  /\ now = 0
  /\ ledger = (MakerWallet :> [eth |-> MakerFunds])
              @@ (ResolverWallet :> [eth |-> ResolverFunds])
  /\ lastCall = NoCall
  /\ activeOrders = << >>
  /\ heap = << >>
  /\ reqs = << >>
  /\ submitted = {}

\* OrderReview.sendFundsToResolver, native asset: the maker's wallet sends
\* makingAmount to RESOLVER_ADDRESS
SendFundsToResolver ==
  /\ \E amount \in {CreateCrossChainOrder("o1", "s1", now).makingAmount} :
       /\ ledger[MakerWallet].eth >= amount
       /\ ledger' = [PaidBy(ledger, MakerWallet, amount)
                       EXCEPT ![ResolverWallet].eth = @ + amount]
  /\ UNCHANGED <<now, lastCall, activeOrders, heap, reqs, submitted>>

\* OrderReview.submitSignedOrder: the order is posted once the transfer is
\* confirmed
SubmitSignedOrder ==
  /\ ledger[MakerWallet].eth < MakerFunds
  /\ NewOrderStart

NextCustody ==
  \/ SendFundsToResolver
  \/ SubmitSignedOrder
  \/ \E r \in DOMAIN reqs : NewOrderDeploySource(r)
  \/ \E r \in DOMAIN reqs : NewOrderDeployDestination(r)
  \/ StatusStart
  \/ \E r \in DOMAIN reqs : StatusCheckSource(r)
  \/ \E r \in DOMAIN reqs : StatusCheckTarget(r)

SpecCustody == InitCustody /\ [][NextCustody]_vars

\* C29: the resolver never has custody: at no time before withdrawal or
\* cancellation does the resolver's account hold the maker's principal; the
\* account never holds more than the resolver's own funds.
C29_NoCustody == ledger[ResolverWallet].eth <= ResolverFunds


(***************************************************************************)
(* Claims about the withdrawals of a reveal, status queries and records.   *)
(***************************************************************************)
\* the transactions request r sent for one leg (1: destination, 2: source)
SentForLeg(r, step) == { tx \in submitted : tx.req = r /\ tx.step = step }

\* C31: no leg has two withdrawal transactions submitted for one reveal: a
\* second transaction is sent only after a read of the ledger, never straight
\* after the first one failed.
C31_OneSubmissionPerLeg ==
  \A r \in DOMAIN reqs : \A step \in {1, 2} :
    Cardinality(SentForLeg(r, step)) <= 1


\* C32: when the entry point chosen by the stage fails, the withdrawal tries
\* the secondary entry point: the second transaction sent for a leg calls
\* another entry point than the first.
C32_SecondaryDiffers ==
  \A r \in DOMAIN reqs : \A step \in {1, 2} :
    \A tx1, tx2 \in SentForLeg(r, step) :
      (tx1.n = 1 /\ tx2.n = 2) => tx2.tx.op # tx1.tx.op


\* what getOrderStatus answers for a record when its two ledger reads end as
\* rs and rt
StatusAnswer(order, rs, rt) ==
  LET sourceStatus == CheckContractStatusOnChain(order.sourceContract, order.orderParams, rs)
      targetStatus == CheckContractStatusOnChain(order.targetContract, order.orderParams, rt)
      ready == /\ sourceStatus.deployed /\ sourceStatus.funded
               /\ targetStatus.deployed /\ targetStatus.funded
  IN [ orderStatus  |-> IF ready THEN "ready_for_reveal" ELSE order.status,
       bothContractsReady |-> ready,
       sourceStatus |-> sourceStatus,
       targetStatus |-> targetStatus ]

\* the answer request r has just given
AnswerOf(req) ==
  [ orderStatus  |-> req.status,
    bothContractsReady |-> /\ req.sourceStatus.deployed /\ req.sourceStatus.funded
                           /\ req.targetStatus.deployed /\ req.targetStatus.funded,
    sourceStatus |-> req.sourceStatus,
    targetStatus |-> req.targetStatus ]

\* C33: the status query is idempotent: a second query made right after one
\* has answered, with the ledger as the first one read it, gives the same
\* orderStatus, bothContractsReady and per-contract deployed and funded.
C33_StatusIdempotent ==
  [][\A r \in DOMAIN reqs :
       ( /\ TargetChecked(r)
         /\ \E rs \in ReadOutcomes :
              CheckContractStatusOnChain(heap[reqs[r].obj].sourceContract,
                                         heap[reqs[r].obj].orderParams, rs)
                = reqs[r].sourceStatus )
       => \A rs, rt \in ReadOutcomes :
            StatusAnswer(heap'[reqs[r].obj], rs, rt) = AnswerOf(reqs'[r])]_vars


(***************************************************************************)
(* Two orders in the resolver service: the handlers of Spec with two order *)
(* ids, while the clock runs up to the end of the finality lock.           *)
(***************************************************************************)
TwoOrderIds == {"o1", "o2"}

LastTickOrders == 60

TickOrders == Tick /\ now < LastTickOrders

NextOrders ==
  \/ TickOrders
  \/ NewOrderStartFor(TwoOrderIds)
  \/ \E r \in DOMAIN reqs : NewOrderDeploySource(r)
  \/ \E r \in DOMAIN reqs : NewOrderDeployDestination(r)
  \/ RevealStartFor(TwoOrderIds)
  \/ \E r \in DOMAIN reqs : RevealWithdrawDestination(r)
  \/ \E r \in DOMAIN reqs : RevealWithdrawSource(r)
  \/ StatusStartFor(TwoOrderIds)
  \/ \E r \in DOMAIN reqs : StatusCheckSource(r)
  \/ \E r \in DOMAIN reqs : StatusCheckTarget(r)
  \/ TezosUserFundingFor(TwoOrderIds)
  \/ UserApprovalFor(TwoOrderIds)

SpecOrders == Init /\ [][NextOrders]_vars

\* the request a step belongs to: the one it starts or moves
Acting(r) == r \notin DOMAIN reqs \/ reqs'[r] # reqs[r]

\* C34: a step of a request for one order id leaves the record stored under
\* every other order id unchanged: the same object stays in the map under
\* that id and none of its fields changes.
C34_OrdersIndependent ==
  [][\A r \in DOMAIN reqs' :
       Acting(r) =>
         \A id \in DOMAIN activeOrders :
           id # reqs'[r].orderId =>
             /\ id \in DOMAIN activeOrders'
             /\ activeOrders'[id] = activeOrders[id]
             /\ heap'[activeOrders[id]] = heap[activeOrders[id]]]_vars

C34_Witness ==
  /\ DOMAIN activeOrders = TwoOrderIds
  /\ heap[activeOrders["o1"]].status = "completed"
  /\ heap[activeOrders["o2"]].status = "contracts_deployed"


(***************************************************************************)
(* SpecSignature: orders signed and verified by CrossChainOrderService.    *)
(* An address is a text: the account it names and the form it is written   *)
(* in.  A signature is the signing wallet and the typed data it signed.    *)
(***************************************************************************)
\* the texts ethers.isAddress accepts: the checksummed form, the lower-case
\* form and the 40 hex digits without the 0x prefix
AddressForms == {"checksum", "lower", "noprefix"}

AddressText(account, form) == [account |-> account, form |-> form]

\* validateOrderParams: ethers.isAddress(params.maker)
IsAddressText(text) == text.form \in AddressForms

\* wallet.address, and the address verifyTypedData returns: checksummed
WalletAddress(wallet) == AddressText(wallet, "checksum")

\* String.toLowerCase of an address text: the prefix is not added
ToLowerCase(text) ==
  [text EXCEPT !.form = IF @ = "checksum" THEN "lower" ELSE @]

\* the value of the CrossChainOrder type encoded from an order: the fields
\* of TYPES, the maker as the 20 bytes its text stands for; the signature
\* and the metadata are not part of it
TypedData(order) ==
  << order.orderId, order.maker.account, order.makerAsset,
     order.makingAmount, order.takingAmount, order.secretHash,
     order.srcExpiry, order.dstExpiry >>

\* signOrder: wallet.signTypedData(DOMAIN, TYPES, order)
SignOrder(order, wallet) == [signer |-> wallet, data |-> TypedData(order)]

\* a signature that cannot be parsed
MalformedSignature == [signer |-> "none", data |-> << >>]

\* ethers.verifyTypedData: the signer when the data is the signed data, an
\* unrelated address otherwise
VerifyTypedData(orderData, signature) ==
  IF signature.data = TypedData(orderData)
  THEN WalletAddress(signature.signer)
  ELSE WalletAddress("unrelated")

\* verifyOrderSignature with the signed payload: the recovered address and
\* order.maker are compared as lower-case texts; anything thrown gives false
VerifyOrderSignatureText(order) ==
  /\ order.signature # MalformedSignature
  /\ IsAddressText(order.maker)
  /\ ToLowerCase(VerifyTypedData(order, order.signature))
       = ToLowerCase(order.maker)

\* createCrossChainOrder(orderParams, makerWallet) at time t with secret s
SignedOrder(maker, makerWallet, s, t) ==
  LET crossChainOrder == [CreateCrossChainOrder("o1", s, t) EXCEPT !.maker = maker]
  IN [crossChainOrder EXCEPT !.signature = SignOrder(crossChainOrder, makerWallet)]

Wallets == {Maker, Holder}

Verification(order, makerWallet, created) ==
  [ kind |-> "verify", order |-> order, wallet |-> makerWallet,
    created |-> created, isValid |-> VerifyOrderSignatureText(order) ]

\* testFullFlow: validateOrderParams, createCrossChainOrder with a wallet,
\* verifyOrderSignature of the order it returned
TestFullFlow ==
  /\ Len(reqs) < MaxRequests
  /\ \E account \in Wallets, form \in AddressForms, makerWallet \in Wallets,
        s \in Secrets :
       reqs' = Append(reqs,
                 Verification(SignedOrder(AddressText(account, form),
                                          makerWallet, s, now),
                              makerWallet, TRUE))
  /\ UNCHANGED <<now, ledger, lastCall, activeOrders, heap, submitted>>

\* the orders somebody can hand to verifyOrderSignature: a signed order with
\* one field replaced
TamperedOrders(t) ==
  LET base == SignedOrder(WalletAddress(Maker), Maker, "s1", t)
  IN { [base EXCEPT !.makingAmount = 0],
       [base EXCEPT !.maker = WalletAddress(Holder)],
       [base EXCEPT !.maker = AddressText(Maker, "nothex")],
       [base EXCEPT !.signature = MalformedSignature],
       [base EXCEPT !.secretHash = Keccak("s2")] }

VerifyTampered ==
  /\ Len(reqs) < MaxRequests
  /\ \E order \in TamperedOrders(now) :
       reqs' = Append(reqs, Verification(order, Maker, FALSE))
  /\ UNCHANGED <<now, ledger, lastCall, activeOrders, heap, submitted>>

NextSignature ==
  \/ TestFullFlow
  \/ VerifyTampered

SpecSignature == Init /\ [][NextSignature]_vars

\* the signature of an order recovers to the account its maker field names
RecoversToMaker(order) ==
  /\ order.signature # MalformedSignature
  /\ IsAddressText(order.maker)
  /\ VerifyTypedData(order, order.signature).account = order.maker.account

SourceWithdrawalSent(r) ==
  /\ reqs[r].kind = "reveal" /\ reqs[r].pc = "withdrawSource"
  /\ \E tx \in submitted' \ submitted : tx.req = r /\ tx.step = 2

\* C36: the Immutables tuple sent with a withdrawal from the Ethereum source
\* escrow is the tuple computed when the escrow was deployed, packed
\* timelocks included, however much time has passed since.
C36_WithdrawalTupleIsDeployed ==
  [][\A r \in DOMAIN reqs :
       SourceWithdrawalSent(r) =>
         LET order == heap[reqs[r].obj]
         IN SrcImmutables(order.orderParams, now)
              = ledger[order.sourceContract.contractAddress].imm]_vars


\* C37: a submission whose order id already has a record leaves that record
\* in place and deploys nothing: no step of its handler changes the map of
\* records or adds a contract to a ledger.
C37_ResubmissionIgnored ==
  [][\A r \in DOMAIN reqs :
       ( /\ reqs[r].kind = "newOrder" /\ reqs'[r] # reqs[r]
         /\ reqs[r].orderId \in DOMAIN activeOrders )
       => /\ activeOrders' = activeOrders
          /\ DOMAIN ledger' = DOMAIN ledger]_vars


(***************************************************************************)
(* SpecApproval: approvals of an ERC-20 order.  The record that awaits the *)
(* maker's approval is the one the client's FundingManager expects from    *)
(* the submission (sourceContract.requiresApproval).                       *)
(***************************************************************************)
\* the tokens of the maker
MakerTokens == 300

\* the allowances the maker can have given to the resolver: none, the amount
\* of the order, or more
Allowances(amount) == {0, amount, 2 * amount, 3 * amount}

\* an order of an ERC-20 asset is stored with its source escrow deployed and
\* awaiting the maker's tokens; the maker has approved the resolver
NewOrderAwaitingApproval ==
  /\ reqs = << >>
  /\ \E allowance \in Allowances(CreateCrossChainOrder("o1", "s1", now).makingAmount) :
       LET order == [CreateCrossChainOrder("o1", "s1", now) EXCEPT !.makerAsset = ERC20]
           p     == ExtractOrderDeploymentParams(order, now)
           sourceContract == [RealSourceContract(1) EXCEPT !.funded = FALSE,
                                                           !.requiresApproval = TRUE]
       IN /\ ledger' = (EthAddr(1) :> [DeployedSrcEscrow(p, now) EXCEPT !.tok = 0])
                       @@ (MakerWallet :> [eth |-> 0, tok |-> MakerTokens,
                                           allowance |-> allowance])
          /\ heap' = (1 :> OrderRecord(order, p, sourceContract, RealTargetContract(1)))
          /\ activeOrders' = MapSet("o1", 1)
          /\ reqs' = << [Answered(Request("newOrder", "o1"), "contracts_deployed")
                           EXCEPT !.obj = 1] >>
  /\ UNCHANGED <<now, lastCall, submitted>>

\* the number of approval requests
MaxApprovals == 3

ApprovalStart ==
  /\ Len(reqs) < 1 + MaxApprovals
  /\ \E orderId \in OrderIds : reqs' = Append(reqs, HandleUserApproval(orderId))
  /\ UNCHANGED <<now, ledger, lastCall, activeOrders, heap, submitted>>

\* await tokenContract.transferFrom(maker, contractAddress, userAmount), sent
\* by the resolver's wallet, and await transferTx.wait()
ApprovalTransfer(r) ==
  /\ reqs[r].kind = "approve" /\ reqs[r].pc = "transfer"
  /\ LET order  == heap[reqs[r].obj]
         addr   == order.sourceContract.contractAddress
         amount == order.orderParams.amount
     IN IF ledger[MakerWallet].tok >= amount /\ ledger[MakerWallet].allowance >= amount
          THEN /\ ledger' = [ledger EXCEPT ![MakerWallet].tok = @ - amount,
                                           ![MakerWallet].allowance = @ - amount,
                                           ![addr].tok = @ + amount]
               /\ submitted' = submitted \cup
                    Sent(r, 1, << Attempt("ethereum", "transferFrom", TRUE) >>)
               /\ reqs' = [reqs EXCEPT ![r].pc = "verify"]
          ELSE /\ reqs' = [reqs EXCEPT ![r] =
                             Rejected(@, "Failed to complete token transfer")]
               /\ UNCHANGED <<ledger, submitted>>
  /\ UNCHANGED <<now, lastCall, activeOrders, heap>>

\* await tokenContract.balanceOf(contractAddress); then the record is marked
\* funded and stored
ApprovalVerify(r) ==
  /\ reqs[r].kind = "approve" /\ reqs[r].pc = "verify"
  /\ LET order == heap[reqs[r].obj]
     IN IF ledger[order.sourceContract.contractAddress].tok < order.orderParams.amount
          THEN /\ reqs' = [reqs EXCEPT ![r] =
                             Rejected(@, "Failed to complete token transfer")]
               /\ UNCHANGED <<heap, activeOrders>>
          ELSE /\ heap' = [heap EXCEPT ![reqs[r].obj].sourceContract.funded = TRUE,
                                       ![reqs[r].obj].sourceContract.requiresApproval = FALSE,
                                       ![reqs[r].obj].status = "funded"]
               /\ activeOrders' = MapSet(reqs[r].orderId, reqs[r].obj)
               /\ reqs' = [reqs EXCEPT ![r] = Answered(@, "funded")]
  /\ UNCHANGED <<now, ledger, lastCall, submitted>>

NextApproval ==
  \/ NewOrderAwaitingApproval
  \/ ApprovalStart
  \/ \E r \in DOMAIN reqs : ApprovalTransfer(r)
  \/ \E r \in DOMAIN reqs : ApprovalVerify(r)

SpecApproval == Init /\ [][NextApproval]_vars

\* the transfers of the maker's tokens the resolver has sent for an order
TransfersFor(orderId) ==
  { tx \in submitted : reqs[tx.req].orderId = orderId /\ tx.tx.op = "transferFrom" }

\* an approval request arrives for an order whose source escrow is recorded
\* as funded
ApprovalOfFundedArrives ==
  /\ Len(reqs') = Len(reqs) + 1
  /\ LET req == reqs'[Len(reqs')]
     IN /\ req.kind = "approve"
        /\ req.orderId \in DOMAIN activeOrders
        /\ heap[activeOrders[req.orderId]].sourceContract.funded

MaxLane == LaneModulus - 1

\* C39: every lane of the word encodeTimelocks packs holds a value of the
\* lane's width, and a stage offset above the largest lane value is packed
\* as that largest value, not as its remainder modulo the lane width.
C39_OffsetsCapped ==
  lastCall.op = "encode" =>
    \A st \in Stages :
      LET offset == lastCall.instants[st] - lastCall.deployedAt
      IN /\ lastCall.packed[st] \in 0..MaxLane
         /\ offset > MaxLane => lastCall.packed[st] = MaxLane


(***************************************************************************)
(* SpecAuction: the auction server.  heap holds the order objects built by *)
(* createOrder, activeOrders is the orders Map, submitted holds the        *)
(* callbacks that are still to run (the two timers of an order, the        *)
(* settlement of a deployment promise), reqs the requests answered.        *)
(***************************************************************************)
MaxAuctionOrders   == 2
MaxAuctionRequests == 4

ResolverIds == {"r1", "r2"}

Callback(id, name) == [order |-> id, callback |-> name]

AuctionAnswer(kind, id, resolverId, ok, err) ==
  [kind |-> kind, orderId |-> id, resolverId |-> resolverId,
   success |-> ok, error |-> err]

\* POST /api/orders: createOrder builds a pending order and sets its two
\* timers; the order is stored under its id
CreateAuctionOrder ==
  /\ Len(reqs) < MaxAuctionRequests
  /\ Cardinality(DOMAIN heap) < MaxAuctionOrders
  /\ LET id == Cardinality(DOMAIN heap) + 1
     IN /\ heap' = (id :> [status |-> "pending", filledBy |-> "none"]) @@ heap
        /\ activeOrders' = MapSet(id, id)
        /\ submitted' = submitted \cup {Callback(id, "start"), Callback(id, "expiry")}
        /\ reqs' = Append(reqs, AuctionAnswer("create", id, "none", TRUE, NoError))
  /\ UNCHANGED <<now, ledger, lastCall>>

\* the timer set for waitingPeriod: a pending order becomes active
StartTimer(id) ==
  /\ Callback(id, "start") \in submitted
  /\ submitted' = submitted \ {Callback(id, "start")}
  /\ heap' = IF heap[id].status = "pending"
               THEN [heap EXCEPT ![id].status = "active"]
               ELSE heap
  /\ UNCHANGED <<now, ledger, lastCall, activeOrders, reqs>>

\* a timer that expires an order whatever its status
ExpiresAlways(status) == TRUE

\* the test of the expiry timer: order.status === 'active'
ExpiresWhen(status) == status = "active"

\* the timer set for waitingPeriod + auctionDuration: an active order expires
ExpiryTimer(id) ==
  /\ Callback(id, "expiry") \in submitted
  /\ submitted' = submitted \ {Callback(id, "expiry")}
  /\ heap' = IF ExpiresWhen(heap[id].status)
               THEN [heap EXCEPT ![id].status = "expired"]
               ELSE heap
  /\ UNCHANGED <<now, ledger, lastCall, activeOrders, reqs>>

\* POST /api/orders/:id/fill, up to the response.  The price of
\* calculateCurrentPrice is below the order's minimum or not.  An accepted
\* fill marks the order as filling and starts the deployment, whose promise
\* settles in a later callback.
FillOrder ==
  /\ Len(reqs) < MaxAuctionRequests
  /\ \E id \in 1..MaxAuctionOrders, resolverId \in ResolverIds,
        belowMinimum \in BOOLEAN :
       IF id \notin DOMAIN activeOrders
         THEN /\ reqs' = Append(reqs, AuctionAnswer("fill", id, resolverId, FALSE,
                                                    "Order not found"))
              /\ UNCHANGED <<heap, activeOrders, submitted>>
       ELSE IF heap[activeOrders[id]].status # "active"
         THEN /\ reqs' = Append(reqs, AuctionAnswer("fill", id, resolverId, FALSE,
                                                    "Order is not active"))
              /\ UNCHANGED <<heap, activeOrders, submitted>>
       ELSE IF belowMinimum
         THEN /\ reqs' = Append(reqs, AuctionAnswer("fill", id, resolverId, FALSE,
                                        "Order price below minimum threshold"))
              /\ UNCHANGED <<heap, activeOrders, submitted>>
       ELSE /\ heap' = [heap EXCEPT ![activeOrders[id]].status = "filling",
                                    ![activeOrders[id]].filledBy = resolverId]
            /\ activeOrders' = MapSet(id, activeOrders[id])
            /\ submitted' = submitted \cup {Callback(id, "deployment")}
            /\ reqs' = Append(reqs, AuctionAnswer("fill", id, resolverId, TRUE, NoError))
  /\ UNCHANGED <<now, ledger, lastCall>>

\* the promise of deployContractsForOrder settles.  An auction order has no
\* _metadata, so contractService.deployContractsForOrder throws while it
\* builds deploymentResults and the catch callback runs
DeploymentSettles(id) ==
  /\ Callback(id, "deployment") \in submitted
  /\ submitted' = submitted \ {Callback(id, "deployment")}
  /\ heap' = [heap EXCEPT ![id].status = "deployment_failed"]
  /\ activeOrders' = MapSet(id, id)
  /\ UNCHANGED <<now, ledger, lastCall, reqs>>

NextAuction ==
  \/ CreateAuctionOrder
  \/ \E id \in DOMAIN heap : StartTimer(id)
  \/ \E id \in DOMAIN heap : ExpiryTimer(id)
  \/ FillOrder
  \/ \E id \in DOMAIN heap : DeploymentSettles(id)

SpecAuction == Init /\ [][NextAuction]_vars

\* the steps of the status of an auction order
AuctionStep(a, b) ==
  \/ a = "pending" /\ b = "active"
  \/ a = "active"  /\ b \in {"filling", "expired"}
  \/ a = "filling" /\ b \in {"contracts_deployed", "deployment_failed"}

\* the fills accepted for an order
AcceptedFills(id) ==
  { r \in DOMAIN reqs :
      reqs[r].kind = "fill" /\ reqs[r].orderId = id /\ reqs[r].success }

\* a fill request is accepted in this step
FillAccepted ==
  /\ Len(reqs') = Len(reqs) + 1
  /\ reqs'[Len(reqs')].kind = "fill" /\ reqs'[Len(reqs')].success

====
